---- MODULE Spec2Model ----
(***************************************************************************)
(* Tool-calling orchestration loop of the SOC agent side bar               *)
(* (src/sidebar.js): dispatch of the tool calls of a model turn, serial    *)
(* auto execution, manual confirmation prompts, batch completion and       *)
(* resubmission, cancellation and the conclusion path.                     *)
(*                                                                         *)
(* JavaScript runs one handler at a time; a handler gives up control only  *)
(* at an await.  Every action below is one run of a handler from the event *)
(* (a click, a network reply, a timer) that resumes it to its next await.  *)
(*                                                                         *)
(* Left out: the text of messages, arguments and results; the suggested-   *)
(* action and heuristic "acting" layers; the non-stream fallback of the    *)
(* last forced-conclusion attempt, which runs only if handleStreamResponse *)
(* throws, and it catches its own errors.  Batch ids (unified-batch-<ms>)  *)
(* are taken to be distinct.                                               *)
(*                                                                         *)
(* Two parts are specified on their own: the accumulator of a streamed     *)
(* response (AIService.handleStreamResponse, src/unnamed/part_008) with    *)
(* its consumer in the side bar, under SpecStream, and the validation of   *)
(* tool arguments (validateAndNormalizeToolArgs), under SpecValidate.      *)
(* A third is the tool registry over every configuration of two services:  *)
(* the catalog of prepareFunctions, the owner lookup, the partition of     *)
(* handleFunctionCalls and the service executeToolFromIntent calls, under  *)
(* SpecRegistry.  A fourth is the list of conversations with the current   *)
(* one, switched while a tool call or a request of the model is in flight, *)
(* under SpecConversations.  A fifth is the partition of the tool calls of *)
(* one reply by handleFunctionCalls, for replies of up to MaxTurnCalls     *)
(* calls, under SpecTurn.  A sixth is buildMessages of the AI service on    *)
(* logs longer than the history window, under SpecHistory.                 *)
(* A seventh is one callTool of the MCP client                             *)
(* (src/src/services/mcp-client.js) against a server that announces the    *)
(* endpoint once per connection and answers a request at most once, under  *)
(* SpecMcp.                                                                *)
(* Left out there: the ids of tool-call fragments, frames with more than   *)
(* one fragment, and the boolean, array and object types of a schema.      *)
(***************************************************************************)
EXTENDS Integers, Sequences, FiniteSets, TLC

\* ------------------------------------------------------------------------
\* Program constants
\* ------------------------------------------------------------------------
maxToolCallsPerTurn == 5
MAX_RETRIES == 2
maxMessageHistory == 10
forceMessageLimit == 6
retryMessageLimit == 3
timeout == 45000
null == 0

\* ------------------------------------------------------------------------
\* Bounds of the model
\* ------------------------------------------------------------------------
MaxCalls == 2
MaxBatches == 1
MaxLoop == 6
MaxClicks == 1
MaxFrames == 3
MaxSlot == 1
MaxRepeatClicks == 2
MaxConversations == 2
MaxRounds == 2
MaxTurnCalls == 6
MaxLog == 11
MaxTicks == 3

\* ------------------------------------------------------------------------
\* Tool registry: one enabled service whose cached tool list holds an
\* auto-execute tool "ta" and a manual tool "tm"; "tu" is a name the model
\* may produce that no enabled service lists.
\* ------------------------------------------------------------------------
ToolNames == {"ta", "tm", "tu"}
mcpServices == << [id |-> "s1", enabled |-> TRUE] >>
mcpToolsCache == [s \in {"s1"} |-> {"ta", "tm"}]
toolsAutoExecute == { <<"s1", "ta">> }

findServiceIdByTool(toolName) ==
  LET hits == { i \in 1..Len(mcpServices) :
                  /\ mcpServices[i].enabled
                  /\ toolName \in mcpToolsCache[mcpServices[i].id] }
  IN IF hits = {} THEN "null"
     ELSE mcpServices[CHOOSE i \in hits : \A j \in hits : i <= j].id

\* The test of the stored flag: toolsAutoExecute[toolKey] === true.
isAutoExecuteIfRouted(toolName) == findServiceIdByTool(toolName) # "null"
isAutoExecute(toolName) ==
  <<findServiceIdByTool(toolName), toolName>> \in toolsAutoExecute

\* ------------------------------------------------------------------------
\* Sequence helpers
\* ------------------------------------------------------------------------
Min(a, b) == IF a <= b THEN a ELSE b
Take(s, n) == SubSeq(s, 1, Min(n, Len(s)))
RemoveAt(s, k) == SubSeq(s, 1, k - 1) \o SubSeq(s, k + 1, Len(s))
Last(s) == s[Len(s)]
Front(s) == SubSeq(s, 1, Len(s) - 1)

\* ------------------------------------------------------------------------
\* Replies of the chat client.  A reply either throws (transport failure)
\* or carries content (empty or not) and a list of tool calls; ids says
\* whether the stream supplied an id for the calls.
\* ------------------------------------------------------------------------
CallLists == UNION { [1..n -> ToolNames] : n \in 1..MaxCalls }
Reply(t, c, l, i) == [throws |-> t, content |-> c, calls |-> l, ids |-> i]
ThrowReply == Reply(TRUE, FALSE, <<>>, TRUE)
TextReply == Reply(FALSE, TRUE, <<>>, TRUE)
EmptyReply == Reply(FALSE, FALSE, <<>>, TRUE)
PlainReplies == { ThrowReply, TextReply, EmptyReply }
\* A plan of the planning request names up to MaxCalls tools.
PlanReplies == { Reply(FALSE, TRUE, l, TRUE) : l \in CallLists }
\* A streamed reply of the legacy flow asks for one tool, with or without
\* an id for the call.
\* A tool call whose name never arrived has the empty name.
NoName == ""
CallReplies ==
  { Reply(FALSE, FALSE, << n >>, i) : n \in ToolNames, i \in BOOLEAN }
    \cup { Reply(FALSE, FALSE, << NoName >>, TRUE) }
\* A reply to a resubmission asks for one routed tool.
FollowUpReplies == { Reply(FALSE, FALSE, << n >>, TRUE) : n \in {"ta", "tm"} }
\* A reply of the conclusion path may carry a tool call although no tools
\* were offered.
CallsAnyway == Reply(FALSE, FALSE, << "ta" >>, FALSE)
ConclusionReplies == PlainReplies \cup { CallsAnyway }
RetryReplies == { TextReply, CallsAnyway }

\* Date.now() read at each of n prompts created by one synchronous run:
\* the clock may or may not tick between two consecutive reads.
TickPatterns(n) ==
  { d \in [1..n -> 0..(n - 1)] :
      /\ (n > 0 => d[1] = 0)
      /\ \A j \in 1..(n - 1) : d[j + 1] - d[j] \in {0, 1} }

VARIABLES
  messages,               \* conversation.messages of the current conversation
  toolResultsCache,       \* this.toolResultsCache[conversation.id]
  pendingManualTools,     \* this.pendingManualTools: batchId -> batch
  prompts,                \* tool prompt elements of the DOM, in document order
  cancellationProcessing, \* this._cancellationProcessing
  timers,                 \* pending setTimeout callbacks, in firing order
  tasks,                  \* async call chains suspended at an await
  now,                    \* Date.now()
  nextId,                 \* source of fresh tool-call ids
  sent,                   \* the user turn has been sent
  dispatches,             \* history: one entry per handleFunctionCalls that passed its guards
  resubmits,              \* history: batch ids, one per sendToolResultsToAI(batch.results) call
  conclusions,            \* history: cancellation-conclusion runs
  everCancelled,          \* history: batches whose cancelled flag was set
  missedCancel,           \* history: a cancel on a prompt of a live batch left the flag unset
  lateRequests,           \* history: batches a completion after whose cancellation sent a tool-enabled request
  failures,               \* history: failed executions [b, id, auto] of tools of batch b
  endings,                \* history: failed endings of a round, each with what it showed
  storage,                \* the conversations in extension storage, as the log relates to them
  staleCalls,             \* history: in what states short of persisted a network call found the log
  stream,                 \* one streamed response: frames read, accumulator, what was returned
  validation,             \* one call of validateAndNormalizeToolArgs: its inputs and its outcome
  registry,               \* one configuration of services and tools, its catalog and one tool call
  chats,                  \* this.conversations, this.currentConversationId and the work in flight
  turn,                   \* the tool calls of one reply as handleFunctionCalls partitions them
  history,                \* a conversation log and the message list buildMessages made of it
  mcp                     \* one callTool of the MCP client

\* The state of the turn, and the state of the parts checked on their own.
orchestration ==
  << messages, toolResultsCache, pendingManualTools, prompts,
     cancellationProcessing, timers, tasks, now, nextId, sent,
     dispatches, resubmits, conclusions, everCancelled, missedCancel,
     lateRequests, failures, endings, storage, staleCalls >>
others == << stream, validation, registry, chats, turn, history, mcp >>

vars == << orchestration, others >>

\* Options of a request: whether it carries the tool catalog.
toolOptions == [tools |-> TRUE]
plainOptions == [tools |-> FALSE]

\* AIService.sendMessage puts tools into the request body only when the
\* options carry a non-empty tools array.
requestCarriesTools(options) == options.tools

\* A suspended call chain.  pc names the await it is suspended at.
NoTask == [pc |-> "none", b |-> 0, calls |-> <<>>, manual |-> <<>>, i |-> 0,
           res |-> <<>>, p |-> 0, q |-> 0, retry |-> 0, stack |-> <<>>,
           ctxs |-> <<>>, opts |-> plainOptions]

\* What the user is shown when a round ends without an answer of the
\* model: showError appends an error element, displayToolResultsSummary
\* renders the raw results, handleStreamResponse leaves a notice in the
\* message of an empty stream, formatAndDisplayToolResult falls back to a
\* message with the raw result; while tool calls of a reply without content
\* are handled, the message of the reply reads "calling tools".
showError == "error"
displayToolResultsSummary == "summary"
emptyStreamNotice == "notice"
rawResultMessage == "rawResult"
toolCallIndicator == "callingTools"
Ending(kind, shown) == [kind |-> kind, shown |-> shown]

UserMsg == [role |-> "user", tool_call_id |-> 0, tool_calls |-> {}]
AssistantMsg(ids) == [role |-> "assistant", tool_call_id |-> 0, tool_calls |-> ids]
ToolMsg(id) == [role |-> "tool", tool_call_id |-> id, tool_calls |-> {}]

\* result.tool_calls and the tool_calls of the returned object are null
\* when there is no tool call; an array of tool calls is never empty, so
\* the empty sequence stands for null.
noToolCalls == <<>>

StreamStart ==
  [frames |-> <<>>, toolCallsMap |-> << >>, fullContent |-> <<>>,
   ended |-> "no", tool_calls |-> noToolCalls,
   returned |-> [content |-> <<>>, tool_calls |-> noToolCalls],
   route |-> "none"]

\* No call of validateAndNormalizeToolArgs yet.
ValidationStart == [called |-> FALSE]
RegistryStart == [phase |-> "start"]
\* The constructor ends with createNewConversation: one empty conversation,
\* which is the current one; nothing is in flight.
Conversation(id) == [id |-> id, messages |-> << >>]
Idle == [stage |-> "idle", origin |-> 0]
TurnStart == [phase |-> "start"]
HistoryStart == [log |-> << >>, built |-> FALSE, sent |-> << >>]

\* The MCP client before callTool: no event source, no timer, the counter
\* of request ids at 0, the promise pending.  "received" holds the ids of
\* the requests that reached the server and have no answer yet, "trace" what
\* the client sent and what its handlers were given.
McpStart ==
  [stage |-> "idle", es |-> "none", sessionUrl |-> FALSE, requestId |-> 0,
   initializeRequestId |-> null, toolCallRequestId |-> null,
   settled |-> FALSE, timer |-> "none", outcome |-> "pending",
   settles |-> 0, endpoint |-> "none", notifying |-> FALSE,
   announced |-> FALSE, received |-> {}, clock |-> 0, trace |-> << >>]
ChatsStart ==
  [conversations |-> << Conversation(1) >>, currentConversationId |-> 1,
   round |-> Idle, rounds |-> 0]

Init ==
  /\ messages = <<>>
  /\ toolResultsCache = <<>>
  /\ pendingManualTools = << >>
  /\ prompts = <<>>
  /\ cancellationProcessing = FALSE
  /\ timers = <<>>
  /\ tasks = <<>>
  /\ now = 1
  /\ nextId = 1
  /\ sent = FALSE
  /\ dispatches = <<>>
  /\ resubmits = <<>>
  /\ conclusions = <<>>
  /\ everCancelled = {}
  /\ missedCancel = FALSE
  /\ lateRequests = {}
  /\ failures = {}
  /\ endings = {}
  /\ storage = [dirty |-> FALSE, writing |-> FALSE, failed |-> FALSE]
  /\ staleCalls = {}
  /\ stream = StreamStart
  /\ validation = ValidationStart
  /\ registry = RegistryStart
  /\ chats = ChatsStart
  /\ turn = TurnStart
  /\ history = HistoryStart
  /\ mcp = McpStart

\* ------------------------------------------------------------------------
\* Persistence of the conversation log
\* ------------------------------------------------------------------------

\* storage.dirty: the log has a message no saveConversations call has taken
\* along.  storage.writing: a write of StorageManager.saveConversations is
\* under way; no caller awaits saveConversations.  storage.failed: the last
\* write that ended returned false, and showReloadNotice ran.
LogState(st) ==
  IF st.dirty THEN "unsaved" ELSE IF st.writing THEN "saving" ELSE "persisted"

\* The awaits of a call chain that wait for the network: an MCP tool call,
\* or a request to the model.
ToolWaits == {"auto", "exec"}
ModelWaits == {"planner", "legacy", "resubmit", "force", "analysis", "single",
               "cancelReq", "forceGen"}
CallOf(t) ==
  IF t.pc \in ToolWaits THEN {"tool"}
  ELSE IF t.pc \in ModelWaits THEN {"model"} ELSE {}

\* The end of one run of a handler: saves tells whether it called
\* saveConversations after its last append, issued is the network call it
\* ends with.  A call issued while the log is not persisted, or after a
\* write that failed, is recorded.
Ran(saves, issued) ==
  LET appended == messages' # messages
      st == [storage EXCEPT !.dirty = IF saves THEN FALSE ELSE @ \/ appended,
                            !.writing = @ \/ saves]
  IN /\ storage' = st
     /\ staleCalls' = staleCalls \cup
          (IF issued = {} THEN {}
           ELSE ({ LogState(st) } \ {"persisted"}) \cup
                (IF st.failed THEN {"afterFailedSave"} ELSE {}))

\* A run of the call chain k, and a run that starts a call chain.
Persist(k, saves) ==
  Ran(saves, IF Len(tasks') = Len(tasks) THEN CallOf(tasks'[k]) ELSE {})
PersistNew(saves) ==
  Ran(saves, IF Len(tasks') > Len(tasks) THEN CallOf(Last(tasks')) ELSE {})

\* sendMessage: append the user message and start the planning request.
UserSend ==
  /\ ~sent
  /\ sent' = TRUE
  /\ messages' = Append(messages, UserMsg)
  /\ tasks' = Append(tasks, [NoTask EXCEPT !.pc = "planner"])
  /\ UNCHANGED << toolResultsCache, pendingManualTools, prompts,
                  cancellationProcessing, timers, now, nextId, dispatches,
                  resubmits, conclusions, everCancelled, missedCancel, lateRequests, failures, endings >>
  /\ PersistNew(messages' # messages)
  /\ UNCHANGED others

\* ------------------------------------------------------------------------
\* Pure helpers of the orchestration code
\* ------------------------------------------------------------------------

\* FunctionCallAdapter.extractToolCalls on the tool_calls of a reply: a call
\* keeps the id of the stream, or gets a generated one (negative here) when
\* the stream supplied none.  raw is the id as stored with the reply.
ParseCalls(reply, base) ==
  [j \in 1..Len(reply.calls) |->
     [name |-> reply.calls[j],
      raw |-> IF reply.ids THEN base + j - 1 ELSE 0,
      id |-> IF reply.ids THEN base + j - 1 ELSE 0 - (base + j - 1)]]

\* Ids the stream supplied with a reply.
IdsUsed(reply) == IF reply.ids THEN Len(reply.calls) ELSE 0

RawIds(calls) == { calls[j].raw : j \in 1..Len(calls) }

\* buildSyntheticToolCalls: planner ids are generated, the plan message that
\* is logged carries no tool_calls.
buildSyntheticToolCalls(plannedTools, base) ==
  [j \in 1..Len(plannedTools) |->
     [name |-> plannedTools[j], raw |-> 0, id |-> 0 - (base + j - 1)]]

Result(call, outcome) ==
  [toolName |-> call.name, toolCallId |-> call.id,
   error |-> (outcome = "fail")]

\* addToolResultToCache: an entry with the same toolCallId is replaced.
addToolResultToCache(cache, r) ==
  IF \E j \in 1..Len(cache) : cache[j].toolCallId = r.toolCallId
  THEN [j \in 1..Len(cache) |->
          IF cache[j].toolCallId = r.toolCallId THEN r ELSE cache[j]]
  ELSE Append(cache, r)

\* checkIfToolResultsAreSufficient: a heuristic on the text of the query
\* and of the results.  It is false without a successful result; with one,
\* its value depends on text the model does not carry (hasData).
checkIfToolResultsAreSufficient(toolResults, hasData) ==
  /\ \E j \in 1..Len(toolResults) : ~toolResults[j].error
  /\ hasData

Prompt(id, batchId, call) ==
  [id |-> id, batchId |-> batchId, toolName |-> call.name,
   toolCallId |-> call.id, execDisabled |-> FALSE,
   cancelDisabled |-> FALSE, cancelled |-> FALSE, clicks |-> 0]

\* appendToolExecutionPrompt for each call of list, in one synchronous run.
NewPrompts(list, batchIds, d) ==
  [j \in 1..Len(list) |-> Prompt(now + d[j], batchIds[j], list[j])]

ClockAfter(n, d) == IF n = 0 THEN now ELSE now + d[n] + 1

\* A chain returns: the finally blocks of its callers are still to run.
Returned(ts, k, stack) ==
  IF stack = <<>> THEN RemoveAt(ts, k)
  ELSE [ts EXCEPT ![k] = [NoTask EXCEPT !.pc = "unwind", !.stack = stack]]

Routed(c) == findServiceIdByTool(c.name) # "null"

\* handleFunctionCalls up to its first await (or its return).
handleFunctionCalls(k, toolCalls, recursionDepth, from, parent, stack) ==
  IF recursionDepth >= maxToolCallsPerTurn
  THEN /\ tasks' = Returned(tasks, k, stack)
       /\ endings' = endings \cup { Ending("recursionLimit", { showError }) }
       /\ UNCHANGED << pendingManualTools, prompts, now, dispatches >>
  ELSE
    LET calls == SelectSeq(Take(toolCalls, maxToolCallsPerTurn),
                           LAMBDA c : c.name # NoName)
        unrouted == SelectSeq(calls, LAMBDA c : ~Routed(c))
        autoExecuteTools ==
          SelectSeq(calls, LAMBDA c : Routed(c) /\ isAutoExecute(c.name))
        manualConfirmTools ==
          SelectSeq(calls, LAMBDA c : Routed(c) /\ ~isAutoExecute(c.name))
        totalCount == Len(autoExecuteTools) + Len(manualConfirmTools)
        batchId == Len(dispatches) + 1
        shown == IF autoExecuteTools = <<>> THEN manualConfirmTools ELSE <<>>
        list == unrouted \o shown
        ids == [j \in 1..Len(list) |->
                  IF j <= Len(unrouted) THEN 0 ELSE batchId]
    IN \E d \in TickPatterns(Len(list)) :
         /\ endings' = IF calls # <<>> THEN endings
                        ELSE endings \cup
                               { Ending("unusableCalls", { toolCallIndicator }) }
         /\ prompts' = prompts \o NewPrompts(list, ids, d)
         /\ now' = ClockAfter(Len(list), d)
         /\ dispatches' = Append(dispatches,
               [b |-> batchId, depth |-> recursionDepth, from |-> from,
                parent |-> parent, total |-> totalCount])
         /\ pendingManualTools' =
              IF totalCount = 0 THEN pendingManualTools
              ELSE [x \in DOMAIN pendingManualTools \cup {batchId} |->
                     IF x = batchId
                     THEN [tools |-> [j \in 1..totalCount |->
                                        (autoExecuteTools \o manualConfirmTools)[j].name],
                           results |-> <<>>,
                           totalCount |-> totalCount,
                           autoCount |-> Len(autoExecuteTools),
                           manualCount |-> Len(manualConfirmTools),
                           cancelled |-> FALSE,
                           recursionDepth |-> recursionDepth]
                     ELSE pendingManualTools[x]]
         /\ tasks' =
              IF autoExecuteTools = <<>> THEN Returned(tasks, k, stack)
              ELSE [tasks EXCEPT ![k] =
                      [NoTask EXCEPT !.pc = "auto", !.b = batchId,
                         !.calls = autoExecuteTools,
                         !.manual = manualConfirmTools,
                         !.i = 1, !.stack = stack]]

\* The model may ask for tools only while the model's dispatch budget lasts.
MayDispatch == Len(dispatches) < MaxBatches

\* sendMessageWithToolDirectoryFlow after the planning request (stream:
\* false, no tools): a plan is turned into synthetic tool calls, anything
\* else is the final answer; a failure falls back to the legacy flow.
PlannerReplyWith(k, replies) ==
  /\ tasks[k].pc = "planner"
  /\ \E reply \in replies :
       IF reply.throws
            \/ (reply.calls # <<>> /\ \A j \in 1..Len(reply.calls) :
                                         findServiceIdByTool(reply.calls[j]) = "null")
       THEN /\ tasks' = [tasks EXCEPT ![k].pc = "legacy",
                                       ![k].opts = toolOptions]
            /\ UNCHANGED << messages, pendingManualTools, prompts, now,
                            nextId, dispatches, endings >>
       ELSE IF reply.calls = <<>>
       THEN /\ messages' = Append(messages, AssistantMsg({}))
            /\ tasks' = RemoveAt(tasks, k)
            /\ UNCHANGED << pendingManualTools, prompts, now, nextId,
                            dispatches, endings >>
       ELSE /\ messages' = Append(messages, AssistantMsg({}))
            /\ nextId' = nextId + Len(reply.calls)
            /\ handleFunctionCalls(k, buildSyntheticToolCalls(reply.calls, nextId),
                                   0, "planner", null, <<>>)
  /\ UNCHANGED << toolResultsCache, cancellationProcessing, timers, sent,
                  resubmits, conclusions, everCancelled, missedCancel, lateRequests, failures >>
  /\ Persist(k, messages' # messages)
  /\ UNCHANGED others

PlannerReply(k) ==
  PlannerReplyWith(k, { ThrowReply, TextReply } \cup PlanReplies)

\* sendMessageWithFunctionCallingLegacy after its request (tools included).
LegacyReply(k) ==
  /\ tasks[k].pc = "legacy"
  /\ \E reply \in PlainReplies \cup CallReplies :
       IF reply.throws
       THEN /\ tasks' = RemoveAt(tasks, k)
            /\ endings' = endings \cup { Ending("request", { showError }) }
            /\ UNCHANGED << messages, pendingManualTools, prompts, now,
                            nextId, dispatches >>
       ELSE IF reply.calls = <<>>
       THEN /\ messages' = Append(messages, AssistantMsg({}))
            /\ tasks' = RemoveAt(tasks, k)
            /\ endings' = IF reply.content THEN endings
                          ELSE endings \cup
                                 { Ending("emptyReply", { emptyStreamNotice }) }
            /\ UNCHANGED << pendingManualTools, prompts, now, nextId,
                            dispatches >>
       ELSE /\ messages' = Append(messages,
                              AssistantMsg(RawIds(ParseCalls(reply, nextId))))
            /\ nextId' = nextId + Len(reply.calls)
            /\ handleFunctionCalls(k, ParseCalls(reply, nextId), 0, "legacy",
                                   null, <<>>)
  /\ UNCHANGED << toolResultsCache, cancellationProcessing, timers, sent,
                  resubmits, conclusions, everCancelled, missedCancel, lateRequests, failures >>
  /\ Persist(k, messages' # messages)
  /\ UNCHANGED others

\* Outcome of one MCP tool call: a result, or a failure (validation error,
\* transport error, timeout).
Outcomes == {"ok", "fail"}

Without(f, b) == [x \in (DOMAIN f) \ {b} |-> f[x]]

\* The callers' finally blocks that run without a further await: the batch
\* on top of the stack is deleted; the caller below it then sleeps.
ReturnNow(k, stack) ==
  /\ pendingManualTools' = Without(pendingManualTools, Last(stack))
  /\ tasks' = Returned(tasks, k, Front(stack))

isBatchCompleteEarly(batch) == Len(batch.results) >= 1

\* The completion test of handleToolExecution and batchAutoExecuteTools.
isBatchComplete(batch) == Len(batch.results) = batch.totalCount

\* The step of the loop over autoExecuteTools: the tool after tool i.
sameAutoTool(i) == i
nextAutoTool(i) == i + 1

\* batchAutoExecuteTools: the i-th tool call of the serial loop has ended.
\* A failure enters the catch block, which reads promptDiv, a const of the
\* try block: the ReferenceError leaves the loop and the function and is
\* caught by handleFunctionCalls, which shows an error and returns.
AutoToolDone(k) ==
  /\ tasks[k].pc = "auto"
  /\ \E out \in Outcomes :
       LET t == tasks[k]
           c == t.calls[t.i]
           b == t.b
           res == Append(t.res, Result(c, out))
       IN IF out = "fail"
          THEN /\ tasks' = Returned(tasks, k, t.stack)
               /\ failures' = failures \cup {[b |-> b, id |-> c.id, auto |-> TRUE]}
               /\ endings' = endings \cup { Ending("dispatch", { showError }) }
               /\ UNCHANGED << messages, toolResultsCache, pendingManualTools,
                               prompts, now, resubmits >>
          ELSE
            /\ UNCHANGED << failures, endings >>
            /\ messages' = Append(messages, ToolMsg(c.id))
            /\ toolResultsCache' =
                 addToolResultToCache(toolResultsCache, Result(c, out))
            /\ IF t.i < Len(t.calls)
               THEN /\ tasks' = [tasks EXCEPT ![k].i = nextAutoTool(@),
                                               ![k].res = res]
                    /\ UNCHANGED << pendingManualTools, prompts, now, resubmits >>
               ELSE IF b \in DOMAIN pendingManualTools
               THEN
                 LET batch == [pendingManualTools[b] EXCEPT !.results = @ \o res]
                     complete == ~batch.cancelled /\ isBatchComplete(batch)
                     shown == IF complete THEN <<>> ELSE t.manual
                 IN /\ pendingManualTools' =
                         [pendingManualTools EXCEPT ![b] = batch]
                    /\ \E d \in TickPatterns(Len(shown)) :
                         /\ prompts' = prompts \o
                              NewPrompts(shown, [j \in 1..Len(shown) |-> b], d)
                         /\ now' = ClockAfter(Len(shown), d)
                    /\ IF complete
                       THEN /\ tasks' = [tasks EXCEPT ![k] =
                                 [NoTask EXCEPT !.pc = "resubmit", !.b = b,
                                    !.res = batch.results,
                                    !.opts = toolOptions,
                                    !.stack = Append(t.stack, b)]]
                            /\ resubmits' = Append(resubmits, b)
                       ELSE /\ tasks' = Returned(tasks, k, t.stack)
                            /\ UNCHANGED resubmits
               ELSE /\ tasks' = [tasks EXCEPT ![k] =
                         [NoTask EXCEPT !.pc = "resubmit", !.b = null,
                            !.res = res, !.opts = toolOptions,
                            !.stack = Append(t.stack, null)]]
                    /\ UNCHANGED << pendingManualTools, prompts, now, resubmits >>
  /\ UNCHANGED << cancellationProcessing, timers, nextId, sent, dispatches,
                  conclusions, everCancelled, missedCancel, lateRequests >>
  /\ Persist(k, messages' # messages /\ tasks[k].i = Len(tasks[k].calls))
  /\ UNCHANGED others

\* sendToolResultsToAI reads the depth of the batch named by its third
\* parameter.
batchRecursionDepth(batchId) ==
  IF batchId # null /\ batchId \in DOMAIN pendingManualTools
  THEN pendingManualTools[batchId].recursionDepth
  ELSE 0

\* The array handed to sendToolResultsToAI is batch.results itself.
ResultsOf(t) ==
  IF t.b \in DOMAIN pendingManualTools
  THEN pendingManualTools[t.b].results ELSE t.res

\* sendToolResultsToAI after its request (tools included) was answered.
\* No caller passes a batch id: the third parameter keeps its default.
ResubmitReplyWith(k, replies, mayDispatch) ==
  /\ tasks[k].pc = "resubmit"
  /\ \E reply \in replies, hasData \in BOOLEAN :
       LET t == tasks[k]
           parsed == ParseCalls(reply, nextId)
       IN
       /\ reply.calls # <<>> =>
            mayDispatch \/ checkIfToolResultsAreSufficient(ResultsOf(t), hasData)
       /\ IF reply.throws
          THEN /\ ReturnNow(k, t.stack)
               /\ endings' = endings \cup { Ending("resubmission", { showError }) }
               /\ UNCHANGED << messages, prompts, now, nextId, dispatches >>
          ELSE
            /\ messages' = Append(messages, AssistantMsg(RawIds(parsed)))
            /\ nextId' = nextId + Len(reply.calls)
            /\ IF reply.calls = <<>>
               THEN /\ tasks' = [tasks EXCEPT
                            ![k].pc = IF reply.content THEN "unwind"
                                      ELSE "analysis",
                            ![k].opts = plainOptions]
                    /\ UNCHANGED << pendingManualTools, prompts, now,
                                    dispatches, endings >>
               ELSE IF checkIfToolResultsAreSufficient(ResultsOf(t), hasData)
               THEN /\ tasks' = [tasks EXCEPT ![k].pc = "force",
                                               ![k].calls = parsed,
                                               ![k].opts = plainOptions]
                    /\ UNCHANGED << pendingManualTools, prompts, now,
                                    dispatches, endings >>
               ELSE handleFunctionCalls(k, parsed,
                                        batchRecursionDepth(null) + 1,
                                        "resubmit", t.b, t.stack)
  /\ UNCHANGED << toolResultsCache, cancellationProcessing, timers, sent,
                  resubmits, conclusions, everCancelled, missedCancel, lateRequests, failures >>
  /\ Persist(k, messages' # messages)
  /\ UNCHANGED others

ResubmitReply(k) ==
  ResubmitReplyWith(k, PlainReplies \cup FollowUpReplies, MayDispatch)

\* sendToolResultsToAI, results sufficient: the request without tools that
\* asks for a conclusion was answered.  Content ends the round; otherwise
\* the tool calls of the first reply are dispatched after all.
ForceReplyWith(k, replies) ==
  /\ tasks[k].pc = "force"
  /\ \E reply \in replies :
       LET t == tasks[k]
       IN /\ messages' = IF reply.throws THEN messages
                         ELSE Append(messages, AssistantMsg({}))
          /\ IF reply.content
             THEN /\ ReturnNow(k, t.stack)
                  /\ UNCHANGED << prompts, now, dispatches, endings >>
             ELSE handleFunctionCalls(k, t.calls,
                                      batchRecursionDepth(null) + 1,
                                      "resubmit", t.b, t.stack)
  /\ UNCHANGED << toolResultsCache, cancellationProcessing, timers, nextId,
                  sent, resubmits, conclusions, everCancelled, missedCancel, lateRequests, failures >>
  /\ Persist(k, messages' # messages)
  /\ UNCHANGED others

ForceReply(k) ==
  ForceReplyWith(k, IF MayDispatch THEN PlainReplies ELSE {TextReply})

\* sendToolResultsToAI, empty reply without tool calls: the request that
\* asks for an analysis was answered (content, or the raw summary).
AnalysisReply(k) ==
  /\ tasks[k].pc = "analysis"
  /\ \E reply \in PlainReplies :
       /\ messages' = IF reply.throws THEN messages
                      ELSE Append(messages, AssistantMsg({}))
       /\ endings' = IF reply.content THEN endings
                     ELSE endings \cup
                            { Ending("emptyReply", { displayToolResultsSummary }) }
       /\ tasks' = [tasks EXCEPT ![k].pc = "unwind"]
  /\ UNCHANGED << toolResultsCache, pendingManualTools, prompts,
                  cancellationProcessing, timers, now, nextId, sent,
                  dispatches, resubmits, conclusions, everCancelled,
                  missedCancel, lateRequests, failures >>
  /\ Persist(k, messages' # messages)
  /\ UNCHANGED others

\* The 100 ms sleep that ends sendToolResultsToAI is over: it returns and
\* the finally block of its caller deletes the batch.
Unwind(k) ==
  /\ tasks[k].pc = "unwind"
  /\ ReturnNow(k, tasks[k].stack)
  /\ UNCHANGED << messages, toolResultsCache, prompts,
                  cancellationProcessing, timers, now, nextId, sent,
                  dispatches, resubmits, conclusions, everCancelled,
                  missedCancel, lateRequests, failures, endings,
                  storage, staleCalls >>
  /\ UNCHANGED others

\* getElementById: the first element of the document that carries the id
\* of the clicked prompt.
getElementById(e) ==
  CHOOSE f \in 1..Len(prompts) :
    /\ prompts[f].id = prompts[e].id
    /\ \A g \in 1..Len(prompts) : prompts[g].id = prompts[e].id => f <= g

\* The batch named by the data-batch-id of a prompt element, if it is live.
LiveBatch(f) ==
  prompts[f].batchId # null /\ prompts[f].batchId \in DOMAIN pendingManualTools

\* handleToolExecution up to the await of the tool call.  e is the prompt
\* whose button was clicked; the handler works on the element its id finds.
\* The user clicks an enabled execute button at most n times.
ClickExecuteUpTo(e, n) ==
  /\ ~prompts[e].execDisabled
  /\ prompts[e].clicks < n
  /\ LET f == getElementById(e)
     IN prompts' = [[prompts EXCEPT ![e].clicks = @ + 1]
                      EXCEPT ![f].execDisabled = TRUE,
                             ![f].cancelDisabled = TRUE]
  /\ tasks' = Append(tasks, [NoTask EXCEPT !.pc = "exec", !.p = e,
                                            !.q = getElementById(e)])
  /\ UNCHANGED << messages, toolResultsCache, pendingManualTools,
                  cancellationProcessing, timers, now, nextId, sent,
                  dispatches, resubmits, conclusions, everCancelled,
                  missedCancel, lateRequests, failures, endings >>
  /\ PersistNew(FALSE)
  /\ UNCHANGED others

ClickExecute(e) == ClickExecuteUpTo(e, MaxClicks)

\* handleToolExecution after the tool call: the result is logged, cached
\* and counted in the batch of the element; the catch block of a failure
\* only updates the prompt.
ExecDone(k) ==
  /\ tasks[k].pc = "exec"
  /\ \E out \in Outcomes :
       LET t == tasks[k]
           e == t.p
           f == t.q
           b == prompts[f].batchId
           r == Result([name |-> prompts[e].toolName,
                        id |-> prompts[e].toolCallId], out)
       IN IF out = "fail"
          THEN /\ prompts' = [prompts EXCEPT ![f].cancelDisabled = FALSE]
               /\ failures' = failures \cup
                    {[b |-> prompts[e].batchId, id |-> prompts[e].toolCallId,
                      auto |-> FALSE]}
               /\ tasks' = RemoveAt(tasks, k)
               /\ UNCHANGED << messages, toolResultsCache, pendingManualTools,
                               resubmits, lateRequests >>
          ELSE
            /\ messages' = Append(messages, ToolMsg(prompts[e].toolCallId))
            /\ toolResultsCache' = addToolResultToCache(toolResultsCache, r)
            /\ UNCHANGED << prompts, failures, endings >>
            /\ IF LiveBatch(f)
               THEN
                 LET batch == [pendingManualTools[b] EXCEPT
                                 !.results = Append(@, r)]
                 IN /\ pendingManualTools' =
                         [pendingManualTools EXCEPT ![b] = batch]
                    /\ IF ~batch.cancelled /\ isBatchComplete(batch)
                       THEN /\ tasks' = [tasks EXCEPT ![k] =
                                 [NoTask EXCEPT !.pc = "resubmit", !.b = b,
                                    !.res = batch.results,
                                    !.opts = toolOptions, !.stack = << b >>]]
                            /\ resubmits' = Append(resubmits, b)
                            /\ lateRequests' = lateRequests \cup
                                 ({prompts[e].batchId} \cap everCancelled)
                       ELSE /\ tasks' = RemoveAt(tasks, k)
                            /\ UNCHANGED << resubmits, lateRequests >>
               ELSE /\ tasks' = [tasks EXCEPT ![k] =
                         [NoTask EXCEPT !.pc = "single",
                                        !.opts = toolOptions]]
                    /\ lateRequests' = lateRequests \cup
                         ({prompts[e].batchId} \cap everCancelled)
                    /\ UNCHANGED << pendingManualTools, resubmits >>
  /\ UNCHANGED << cancellationProcessing, timers, now, nextId, sent,
                  dispatches, conclusions, everCancelled, missedCancel,
                  endings >>
  /\ Persist(k, messages' # messages)
  /\ UNCHANGED others

\* formatAndDisplayToolResult after its request (tools included).
SingleReplyWith(k, replies) ==
  /\ tasks[k].pc = "single"
  /\ \E reply \in replies :
       LET parsed == ParseCalls(reply, nextId)
       IN /\ messages' = Append(messages, AssistantMsg(RawIds(parsed)))
          /\ nextId' = nextId + Len(reply.calls)
          /\ IF reply.calls = <<>>
             THEN /\ tasks' = RemoveAt(tasks, k)
                  /\ endings' =
                       IF reply.throws
                       THEN endings \cup { Ending("request", { rawResultMessage }) }
                       ELSE IF reply.content THEN endings
                       ELSE endings \cup
                              { Ending("emptyReply", { emptyStreamNotice }) }
                  /\ UNCHANGED << pendingManualTools, prompts, now, dispatches >>
             ELSE handleFunctionCalls(k, parsed, 1, "single", null, <<>>)
  /\ UNCHANGED << toolResultsCache, cancellationProcessing, timers, sent,
                  resubmits, conclusions, everCancelled, missedCancel,
                  lateRequests, failures >>
  /\ Persist(k, messages' # messages)
  /\ UNCHANGED others

SingleReply(k) ==
  SingleReplyWith(k, PlainReplies \cup
                     (IF MayDispatch THEN FollowUpReplies ELSE {}))

\* Options of the requests of the cancellation-conclusion path: neither
\* carries tools.
cancellationOptionsWithTools == [tools |-> TRUE]
cancellationOptions == [tools |-> FALSE]
forceGenOptions == [tools |-> FALSE]

\* forceGenerateConclusionFromToolResults: the number of history messages
\* the attempt with this retryCount takes along.
forceGenWindow(retryCount) ==
  IF retryCount > 0 /\ retryCount >= MAX_RETRIES - 1 THEN 0
  ELSE IF retryCount > 0 THEN retryMessageLimit ELSE forceMessageLimit

Timer(op, b) == [op |-> op, b |-> b]

\* The finally blocks of handleToolCancellation after a conclusion run: the
\* flag is reset after 500 ms, the batch is deleted after 1000 ms.
ConclusionDone(k) ==
  /\ timers' = timers \o
       (IF tasks[k].b # null
        THEN << Timer("reset", null), Timer("delete", tasks[k].b) >>
        ELSE << Timer("reset", null) >>)
  /\ tasks' = RemoveAt(tasks, k)

\* getToolResultsFromCache: the cached results of the whole conversation.
getToolResultsFromCache(cache) == cache

allToolResultsOfBatch(cache, batch) == batch.results

\* The results handleToolCancellation hands to the conclusion of a batch.
allToolResults(cache, batch) == getToolResultsFromCache(cache)

\* handleToolCancellation up to its first await (or its return).
ClickCancel(e) ==
  /\ ~prompts[e].cancelDisabled
  /\ ~prompts[getElementById(e)].cancelled
  /\ LET f == getElementById(e)
         b == prompts[f].batchId
         conclude(batchId, results) ==
           /\ tasks' = Append(tasks,
                [NoTask EXCEPT !.pc = "cancelReq", !.b = batchId,
                   !.res = results,
                   !.ctxs = << maxMessageHistory >>,
                   !.opts = cancellationOptions])
           /\ messages' = Append(messages, AssistantMsg({}))
           /\ conclusions' = Append(conclusions, b)
           /\ UNCHANGED << timers, endings >>
     IN
     /\ prompts' = [prompts EXCEPT ![f].cancelled = TRUE,
                                   ![f].execDisabled = TRUE,
                                   ![f].cancelDisabled = TRUE]
     /\ IF cancellationProcessing
        THEN UNCHANGED << cancellationProcessing, pendingManualTools,
                          everCancelled, tasks, messages, conclusions, timers,
                          endings >>
        ELSE
          /\ cancellationProcessing' = TRUE
          /\ IF LiveBatch(f)
             THEN IF pendingManualTools[b].cancelled
                  THEN /\ timers' = Append(timers, Timer("reset", null))
                       /\ UNCHANGED << pendingManualTools, everCancelled,
                                       tasks, messages, conclusions,
                                       endings >>
                  ELSE /\ pendingManualTools' =
                            [pendingManualTools EXCEPT ![b].cancelled = TRUE]
                       /\ everCancelled' = everCancelled \cup {b}
                       /\ IF getToolResultsFromCache(toolResultsCache) # <<>>
                          THEN conclude(b, allToolResults(toolResultsCache,
                                                          pendingManualTools[b]))
                          ELSE /\ timers' = timers \o
                                    << Timer("delete", b), Timer("reset", null) >>
                               /\ endings' = endings \cup
                                    { Ending("cancelledWithoutResults",
                                             { showError }) }
                               /\ UNCHANGED << tasks, messages, conclusions >>
             ELSE /\ UNCHANGED << pendingManualTools, everCancelled >>
                  /\ IF getToolResultsFromCache(toolResultsCache) # <<>>
                     THEN conclude(null,
                                   getToolResultsFromCache(toolResultsCache))
                     ELSE /\ timers' = Append(timers, Timer("reset", null))
                          /\ UNCHANGED << tasks, messages, conclusions,
                                          endings >>
     /\ missedCancel' =
          (missedCancel
             \/ (LiveBatch(e)
                   /\ ~pendingManualTools'[prompts[e].batchId].cancelled))
  /\ UNCHANGED << toolResultsCache, now, nextId, sent, dispatches, resubmits,
                  lateRequests, failures >>
  /\ PersistNew(messages' # messages)
  /\ UNCHANGED others

\* sendToolResultsToAIWithCancellation after its request was answered:
\* content ends the run, tool calls are not looked at; without content the
\* forced conclusion starts with retryCount 0.
CancelReply(k) ==
  /\ tasks[k].pc = "cancelReq"
  /\ \E reply \in ConclusionReplies :
       LET parsed == ParseCalls(reply, nextId)
       IN IF reply.throws
          THEN /\ ConclusionDone(k)
               /\ endings' = endings \cup { Ending("conclusion", { showError }) }
               /\ UNCHANGED << messages, nextId >>
          ELSE /\ messages' = Append(messages, AssistantMsg(RawIds(parsed)))
               /\ nextId' = nextId + IdsUsed(reply)
               /\ UNCHANGED endings
               /\ IF reply.content
                  THEN ConclusionDone(k)
                  ELSE /\ tasks' = [tasks EXCEPT
                            ![k].pc = "forceGen", ![k].retry = 0,
                            ![k].ctxs = Append(@, forceGenWindow(0)),
                            ![k].opts = forceGenOptions]
                       /\ UNCHANGED timers
  /\ UNCHANGED << toolResultsCache, pendingManualTools, prompts,
                  cancellationProcessing, now, sent, dispatches, resubmits,
                  conclusions, everCancelled, missedCancel, lateRequests,
                  failures >>
  /\ Persist(k, messages' # messages)
  /\ UNCHANGED others

\* forceGenerateConclusionFromToolResults after the request of one attempt
\* was answered: content is logged, otherwise the attempt is repeated while
\* retryCount < MAX_RETRIES and the raw summary is shown after that.
ForceGenReply(k) ==
  /\ tasks[k].pc = "forceGen"
  /\ \E reply \in RetryReplies :
       LET t == tasks[k]
           parsed == ParseCalls(reply, nextId)
           streamed == IF reply.throws THEN messages
                       ELSE Append(messages, AssistantMsg(RawIds(parsed)))
       IN /\ nextId' = nextId + IdsUsed(reply)
          /\ IF ~reply.throws /\ reply.content
             THEN /\ messages' = Append(streamed, AssistantMsg({}))
                  /\ ConclusionDone(k)
                  /\ UNCHANGED endings
             ELSE /\ messages' = streamed
                  /\ IF t.retry < MAX_RETRIES
                     THEN /\ tasks' = [tasks EXCEPT
                               ![k].retry = @ + 1,
                               ![k].ctxs = Append(@, forceGenWindow(t.retry + 1)),
                               ![k].opts = forceGenOptions]
                          /\ UNCHANGED << timers, endings >>
                     ELSE /\ ConclusionDone(k)
                          /\ endings' = endings \cup
                               { Ending("conclusion",
                                        { displayToolResultsSummary }) }
  /\ UNCHANGED << toolResultsCache, pendingManualTools, prompts,
                  cancellationProcessing, now, sent, dispatches, resubmits,
                  conclusions, everCancelled, missedCancel, lateRequests,
                  failures >>
  /\ Persist(k, messages' # messages)
  /\ UNCHANGED others

\* The oldest pending cleanup timer of handleToolCancellation fires.
TimerFire ==
  /\ timers # <<>>
  /\ timers' = Tail(timers)
  /\ IF Head(timers).op = "reset"
     THEN /\ cancellationProcessing' = FALSE
          /\ UNCHANGED pendingManualTools
     ELSE /\ pendingManualTools' = Without(pendingManualTools, Head(timers).b)
          /\ UNCHANGED cancellationProcessing
  /\ UNCHANGED << messages, toolResultsCache, prompts, tasks, now, nextId,
                  sent, dispatches, resubmits, conclusions, everCancelled,
                  missedCancel, lateRequests, failures, endings,
                  storage, staleCalls >>
  /\ UNCHANGED others

\* A write of StorageManager.saveConversations ends: it returns true, or
\* false after an error of the storage; saveConversations then shows the
\* reload notice.  Writes end in the order they were started: the end of
\* the last one stands for all that were under way.
SaveDone ==
  /\ storage.writing
  /\ \E success \in BOOLEAN :
       storage' = [storage EXCEPT !.writing = FALSE, !.failed = ~success]
  /\ UNCHANGED << messages, toolResultsCache, pendingManualTools, prompts,
                  cancellationProcessing, timers, tasks, now, nextId, sent,
                  dispatches, resubmits, conclusions, everCancelled,
                  missedCancel, lateRequests, failures, endings, staleCalls >>
  /\ UNCHANGED others

Next ==
  \/ UserSend
  \/ \E k \in 1..Len(tasks) : PlannerReply(k)
  \/ \E k \in 1..Len(tasks) : LegacyReply(k)
  \/ \E k \in 1..Len(tasks) : AutoToolDone(k)
  \/ \E k \in 1..Len(tasks) : ResubmitReply(k)
  \/ \E k \in 1..Len(tasks) : ForceReply(k)
  \/ \E k \in 1..Len(tasks) : AnalysisReply(k)
  \/ \E k \in 1..Len(tasks) : Unwind(k)
  \/ \E e \in 1..Len(prompts) : ClickExecute(e)
  \/ \E k \in 1..Len(tasks) : ExecDone(k)
  \/ \E k \in 1..Len(tasks) : SingleReply(k)
  \/ \E e \in 1..Len(prompts) : ClickCancel(e)
  \/ \E k \in 1..Len(tasks) : CancelReply(k)
  \/ \E k \in 1..Len(tasks) : ForceGenReply(k)
  \/ TimerFire
  \/ SaveDone

Spec == Init /\ [][Next]_vars

\* A turn in which the model asks for one more routed tool in every reply
\* that may carry tool calls, for up to MaxLoop dispatches.
LoopPlans == { Reply(FALSE, TRUE, << n >>, TRUE) : n \in {"ta", "tm"} }

NextLoop ==
  \/ UserSend
  \/ \E k \in 1..Len(tasks) : PlannerReplyWith(k, LoopPlans)
  \/ \E k \in 1..Len(tasks) : AutoToolDone(k)
  \/ \E e \in 1..Len(prompts) : ClickExecute(e)
  \/ \E k \in 1..Len(tasks) : ExecDone(k)
  \/ \E k \in 1..Len(tasks) :
       ResubmitReplyWith(k, FollowUpReplies, Len(dispatches) < MaxLoop)
  \/ \E k \in 1..Len(tasks) :
       ForceReplyWith(k, IF Len(dispatches) < MaxLoop
                         THEN { EmptyReply } ELSE { TextReply })
  \/ \E k \in 1..Len(tasks) : Unwind(k)
  \/ SaveDone

SpecLoop == Init /\ [][NextLoop]_vars

\* A turn whose plan holds manual tools only, in which the user may click
\* an execute button that stayed enabled up to MaxRepeatClicks times.
ManualPlans ==
  { Reply(FALSE, TRUE, l, TRUE) : l \in { << "tm" >>, << "tm", "tm" >> } }

NextRepeat ==
  \/ UserSend
  \/ \E k \in 1..Len(tasks) : PlannerReplyWith(k, ManualPlans)
  \/ \E e \in 1..Len(prompts) : ClickExecuteUpTo(e, MaxRepeatClicks)
  \/ \E k \in 1..Len(tasks) : ExecDone(k)
  \/ \E k \in 1..Len(tasks) : ResubmitReplyWith(k, { TextReply }, FALSE)
  \/ \E k \in 1..Len(tasks) : SingleReplyWith(k, { TextReply })
  \/ \E k \in 1..Len(tasks) : Unwind(k)
  \/ SaveDone

SpecRepeat == Init /\ [][NextRepeat]_vars

\* ------------------------------------------------------------------------
\* The streamed response
\* ------------------------------------------------------------------------

\* One line of the stream.  A text frame carries delta.content, a tool
\* frame one fragment of delta.tool_calls: the index of its slot, a name
\* and a piece of the arguments string, each possibly empty; a garbage
\* frame is a line JSON.parse rejects.  Strings are sequences of letters.
TextFrame(c) ==
  [kind |-> "text", index |-> 0, name |-> NoName, arguments |-> <<>>,
   content |-> c]
ToolFrame(i, n, a) ==
  [kind |-> "tool", index |-> i, name |-> n, arguments |-> a,
   content |-> <<>>]
GarbageFrame ==
  [kind |-> "garbage", index |-> 0, name |-> NoName, arguments |-> <<>>,
   content |-> <<>>]
Frames ==
  { TextFrame(<<>>), TextFrame(<< "x" >>), GarbageFrame } \cup
  { ToolFrame(i, n, a) : i \in 0..MaxSlot, n \in {NoName, "ta", "tm"},
                         a \in { <<>>, << "a" >>, << "b" >> } }

\* How the body ends: reader.read() reports done after a last line that was
\* terminated, or after one that was not (it stays in the buffer and is
\* never parsed), or reader.read() rejects.
StreamEnds == {"done", "cut", "error"}

replaceArguments(old, fragment) == fragment

\* toolCallsMap[index].function.arguments += toolCall.function.arguments
accumulateArguments(old, fragment) == old \o fragment

\* readStream on one tool-call fragment: the slot is created on its first
\* fragment, every non-empty name is assigned to it, the arguments grow.
accumulate(map, f) ==
  LET slot == IF f.index \in DOMAIN map THEN map[f.index]
              ELSE [name |-> NoName, arguments |-> <<>>]
      new == [name |-> IF f.name # NoName THEN f.name ELSE slot.name,
              arguments |-> accumulateArguments(slot.arguments, f.arguments)]
  IN [x \in (DOMAIN map) \cup {f.index} |->
        IF x = f.index THEN new ELSE map[x]]

\* Object.values of an object with integer keys: ascending key order.
RECURSIVE ObjectValues(_)
ObjectValues(map) ==
  IF DOMAIN map = {} THEN <<>>
  ELSE LET i == CHOOSE i \in DOMAIN map : \A j \in DOMAIN map : i <= j
       IN << map[i] >> \o ObjectValues(Without(map, i))

\* sendMessageWithFunctionCallingLegacy on the object handleStreamResponse
\* returned: tool calls are handed to handleFunctionCalls, anything else is
\* the answer of the turn.
routeOnContent(result) ==
  IF result.content # <<>> /\ result.tool_calls # noToolCalls
  THEN "dispatch" ELSE "answer"
routeOf(result) ==
  IF result.tool_calls # noToolCalls THEN "dispatch" ELSE "answer"

\* readStream parses one complete line.  The consumer in the sidebar adds
\* each piece of content it is handed to fullContent.
ReadFrame(f) ==
  /\ stream.ended = "no"
  /\ Len(stream.frames) < MaxFrames
  /\ stream' = [stream EXCEPT
       !.frames = Append(@, f),
       !.fullContent = IF f.kind = "text" THEN @ \o f.content ELSE @,
       !.toolCallsMap = IF f.kind = "tool" THEN accumulate(@, f) ELSE @]
  /\ UNCHANGED << orchestration, validation, registry, chats, turn, history, mcp >>

\* The body ends.  The finally block of readStream turns toolCallsMap into
\* result.tool_calls; handleStreamResponse of the sidebar returns the
\* content with result.tool_calls, and from its catch block, after a read
\* error, the content with tool_calls: null.
EndStream(how) ==
  /\ stream.ended = "no"
  /\ LET tool_calls == ObjectValues(stream.toolCallsMap)
         returned == [content |-> stream.fullContent,
                      tool_calls |-> IF how = "error" THEN noToolCalls
                                     ELSE tool_calls]
     IN stream' = [stream EXCEPT !.ended = how,
                                 !.tool_calls = tool_calls,
                                 !.returned = returned,
                                 !.route = routeOf(returned)]
  /\ UNCHANGED << orchestration, validation, registry, chats, turn, history, mcp >>

NextStream ==
  \/ \E f \in Frames : ReadFrame(f)
  \/ \E how \in StreamEnds : EndStream(how)

SpecStream == Init /\ [][NextStream]_vars

\* ------------------------------------------------------------------------
\* Validation of tool arguments
\* ------------------------------------------------------------------------

\* A JSON value with its typeof: strings and numbers are told apart, the
\* letters of a number are its decimal digits.
Str(s) == [t |-> "string", v |-> s]
Num(s) == [t |-> "number", v |-> s]
Null == [t |-> "null", v |-> "null"]
Values == { Str("low"), Str("medium"), Str("1"), Num("1"), Num("7"), Null }

ParamNames == {"level", "count"}

\* The schema of a property: its type and, if it declares one, its enum.
PropSchemas ==
  { [type |-> "string", declaresEnum |-> FALSE, enum |-> {}],
    [type |-> "string", declaresEnum |-> TRUE,
     enum |-> { Str("low"), Str("high") }],
    [type |-> "integer", declaresEnum |-> FALSE, enum |-> {}],
    [type |-> "integer", declaresEnum |-> TRUE,
     enum |-> { Num("1"), Num("2") }] }

\* inputSchema of the tool definition: properties and required; or no
\* definition of the tool at hand.
Schemas ==
  { [known |-> TRUE, properties |-> ps, required |-> r] :
      ps \in UNION { [d -> PropSchemas] : d \in SUBSET ParamNames },
      r \in SUBSET ParamNames }
  \cup { [known |-> FALSE, properties |-> << >>, required |-> {}] }

Args == UNION { [d -> Values] : d \in SUBSET ParamNames }

\* The arguments as handed to the validator: an object with its fields, or
\* something the first test of the validator does not take for an object
\* (undefined, null, a string, an array).
NonObjects == {"undefined", "null", "string", "array"}
Object(fields) == [shape |-> "object", fields |-> fields]
RawArgs ==
  { Object(a) : a \in Args } \cup
  { [shape |-> x, fields |-> << >>] : x \in NonObjects }

\* String(value), and parseInt(value, 10) of a string (NaN: no number).
String(value) == Str(value.v)
isNaN(s) == s \notin {"1", "7"}
parseInt(s) == Num(s)

\* The type conversion of one parameter (boolean, array and object types
\* are left out).
normalize(paramSchema, paramValue) ==
  IF paramSchema.type = "string" /\ paramValue.t # "string"
  THEN String(paramValue)
  ELSE IF paramSchema.type = "integer" /\ paramValue.t = "string"
            /\ ~isNaN(paramValue.v)
  THEN parseInt(paramValue.v)
  ELSE paramValue

\* if (!paramSchema.enum.includes(normalizedValue)) throw ...
enumRejects(paramSchema, paramValue) ==
  /\ paramSchema.declaresEnum
  /\ normalize(paramSchema, paramValue) \notin paramSchema.enum

rethrowsAlways(required, paramName) == TRUE

\* The catch block around the validation of one parameter throws the error
\* on only for a required parameter.
rethrows(required, paramName) == paramName \in required

\* validateAndNormalizeToolArgs: it throws, or returns validatedArgs.
validateAndNormalizeToolArgs(schema, raw) ==
  IF raw.shape # "object" THEN [threw |-> FALSE, validatedArgs |-> << >>]
  ELSE IF ~schema.known THEN [threw |-> FALSE, validatedArgs |-> raw.fields]
  ELSE
    LET args == raw.fields
        properties == schema.properties
        required == schema.required
        missing == \E p \in required : p \notin DOMAIN args \/ args[p] = Null
        rejected(p) == /\ p \in DOMAIN properties
                       /\ enumRejects(properties[p], args[p])
    IN [threw |-> missing \/ \E p \in DOMAIN args :
                               rejected(p) /\ rethrows(required, p),
        validatedArgs |->
          [p \in DOMAIN args |->
             IF p \notin DOMAIN properties \/ rejected(p) THEN args[p]
             ELSE normalize(properties[p], args[p])]]

\* executeToolFromIntent validates the arguments of a tool call.
Validate(schema, raw) ==
  /\ ~validation.called
  /\ validation' = [called |-> TRUE, schema |-> schema, raw |-> raw,
                    args |-> raw.fields,
                    result |-> validateAndNormalizeToolArgs(schema, raw)]
  /\ UNCHANGED << orchestration, stream, registry, chats, turn, history, mcp >>

NextValidate == \E schema \in Schemas, raw \in RawArgs : Validate(schema, raw)

SpecValidate == Init /\ [][NextValidate]_vars

\* ------------------------------------------------------------------------
\* The tool registry over every configuration of two services
\* ------------------------------------------------------------------------
\* The services in the order of this.mcpServices, the names their tool
\* lists may hold, and the names the model may call: a listed name, a name
\* no list holds, and a listed name behind a two-part prefix.
ServiceIds == << "s1", "s2" >>
CachedNames == {"ta", "tb"}
CalledNames == {"ta", "tb", "tu", "x-y-ta"}
ToolLists == { << >>, << "ta" >>, << "tb" >>, << "ta", "tb" >> }
Caches ==
  { [cached |-> FALSE, tools |-> << >>] } \cup
  { [cached |-> TRUE, tools |-> l] : l \in ToolLists }
\* A stored flag of toolsEnabled or toolsAutoExecute: no entry, true, false,
\* or a truthy value that is not the boolean true.
EnabledFlags == {"unset", "true", "false"}
AutoFlags == {"unset", "true", "false", "truthy"}
ToolKeys == {"s1", "s2"} \X CachedNames
Settings ==
  [services : [1..2 -> BOOLEAN],
   cache : [{"s1", "s2"} -> Caches],
   toolsEnabled : [ToolKeys -> EnabledFlags]]

servicesOf(r) ==
  [i \in 1..Len(ServiceIds) |->
     [id |-> ServiceIds[i], enabled |-> r.services[i]]]

includes(tools, toolName) == \E i \in 1..Len(tools) : tools[i] = toolName

\* The first service of a list among those at the positions hits, "null" if
\* there is none: the loops over mcpServices and Array.prototype.find.
find(seq, hits) ==
  IF hits = {} THEN "null"
  ELSE seq[CHOOSE i \in hits : \A j \in hits : i <= j].id

\* The positions of the enabled services whose cached list holds a name.
enabledWith(r, toolName) ==
  { i \in 1..Len(ServiceIds) :
      /\ r.services[i]
      /\ r.cache[ServiceIds[i]].cached
      /\ includes(r.cache[ServiceIds[i]].tools, toolName) }
enabledServices(r) == { i \in 1..Len(ServiceIds) : r.services[i] }

\* The filter of the catalog: a tool is presented unless its flag is false.
isEnabledOnlyIfSet(flag) == flag = "true"
isEnabled(flag) == flag # "false"

mcpToolsToFunctions(tools, serviceId) ==
  [i \in 1..Len(tools) |-> [name |-> tools[i], serviceId |-> serviceId]]

RECURSIVE aggregateToolsFromServices(_, _)
aggregateToolsFromServices(mcpServicesMap, toolsEnabled) ==
  IF mcpServicesMap = << >> THEN << >>
  ELSE
    LET serviceData == Head(mcpServicesMap)
        functions == mcpToolsToFunctions(serviceData.tools, serviceData.id)
        enabledFunctions ==
          SelectSeq(functions,
                    LAMBDA func :
                      isEnabled(toolsEnabled[<< serviceData.id, func.name >>]))
    IN (IF serviceData.enabled THEN enabledFunctions ELSE << >>)
         \o aggregateToolsFromServices(Tail(mcpServicesMap), toolsEnabled)

\* prepareFunctions: the enabled services that have a cached tool list, in
\* the order of mcpServices, handed to the aggregation with toolsEnabled.
prepareFunctions(r) ==
  LET withTools ==
        SelectSeq(servicesOf(r),
                  LAMBDA service : service.enabled /\ r.cache[service.id].cached)
      mcpServicesMap ==
        [i \in 1..Len(withTools) |->
           [id |-> withTools[i].id, enabled |-> withTools[i].enabled,
            tools |-> r.cache[withTools[i].id].tools]]
  IN aggregateToolsFromServices(mcpServicesMap, r.toolsEnabled)

\* findServiceIdByTool over a configuration r.
findServiceIdByToolIn(r, toolName) ==
  find(servicesOf(r), enabledWith(r, toolName))

\* toolName.replace(/^[^-]+-[^-]+-/, '') on the names the model may call.
simplifiedToolName(toolName) ==
  IF toolName = "x-y-ta" THEN "ta" ELSE toolName

\* The service executeToolFromIntent calls the tool on: the first enabled
\* service whose list holds the name or the simplified name, else the first
\* enabled service; "null" stands for the error it throws when there is
\* none.
targetService(r, toolName) ==
  LET found ==
        find(servicesOf(r),
             enabledWith(r, toolName) \cup
               enabledWith(r, simplifiedToolName(toolName)))
  IN IF found # "null" THEN found
     ELSE find(servicesOf(r), enabledServices(r))

\* The service a prompt names (appendToolExecutionPrompt): the first enabled
\* service whose list holds the name, else the first enabled service, else
\* the text for a default service.
serviceName(r, toolName) ==
  LET found == findServiceIdByToolIn(r, toolName)
      enabledService == find(servicesOf(r), enabledServices(r))
  IN IF found # "null" THEN found
     ELSE IF enabledService # "null" THEN enabledService
     ELSE "default"

\* The settings are loaded.
LoadSettings(r) ==
  /\ registry.phase = "start"
  /\ registry' = [phase |-> "loaded", settings |-> r]
  /\ UNCHANGED << orchestration, stream, validation, chats, turn, history, mcp >>

\* A message is sent: prepareFunctions builds the catalog of the request.
PrepareFunctions ==
  /\ registry.phase = "loaded"
  /\ registry' = [phase |-> "prepared", settings |-> registry.settings,
                  functions |-> prepareFunctions(registry.settings)]
  /\ UNCHANGED << orchestration, stream, validation, chats, turn, history, mcp >>

\* handleFunctionCalls meets a tool call: the owner lookup, and with the
\* stored auto-execute flag of owner and tool the part of the batch the
\* call goes to.  A call without an owner gets a prompt of its own; a
\* prompt names a service.
HandleFunctionCall(toolName, flag) ==
  /\ registry.phase = "prepared"
  /\ LET r == registry.settings
         serviceId == findServiceIdByToolIn(r, toolName)
         part == IF serviceId = "null" THEN "unrouted"
                 ELSE IF flag = "true" THEN "auto" ELSE "manual"
     IN registry' = [phase |-> "called", settings |-> r,
                     functions |-> registry.functions,
                     toolName |-> toolName, flag |-> flag,
                     serviceId |-> serviceId, part |-> part,
                     prompt |-> IF part = "auto" THEN "none"
                                ELSE "execute-or-cancel",
                     serviceName |-> IF part = "auto" THEN "none"
                                     ELSE serviceName(r, toolName)]
  /\ UNCHANGED << orchestration, stream, validation, chats, turn, history, mcp >>

\* The call is executed: by batchAutoExecuteTools when it is an auto tool,
\* by handleToolExecution after a click on the execute button of its
\* prompt otherwise.  Both call executeToolFromIntent with the name alone.
ExecuteToolFromIntent ==
  /\ registry.phase = "called"
  /\ registry' = [phase |-> "executed", settings |-> registry.settings,
                  functions |-> registry.functions,
                  toolName |-> registry.toolName, flag |-> registry.flag,
                  serviceId |-> registry.serviceId, part |-> registry.part,
                  prompt |-> registry.prompt,
                  serviceName |-> registry.serviceName,
                  confirmed |-> registry.part # "auto",
                  target |-> targetService(registry.settings,
                                           registry.toolName)]
  /\ UNCHANGED << orchestration, stream, validation, chats, turn, history, mcp >>

NextRegistry ==
  \/ \E r \in Settings : LoadSettings(r)
  \/ PrepareFunctions
  \/ \E toolName \in CalledNames, flag \in AutoFlags :
       HandleFunctionCall(toolName, flag)
  \/ ExecuteToolFromIntent

SpecRegistry == Init /\ [][NextRegistry]_vars

\* ------------------------------------------------------------------------
\* Conversations: the current one, and work in flight
\* ------------------------------------------------------------------------
\* getCurrentConversation: the position of the conversation with the
\* current id in this.conversations.
getCurrentConversation(c) ==
  CHOOSE i \in 1..Len(c.conversations) :
    c.conversations[i].id = c.currentConversationId

\* conversation.messages.push(record) on the current conversation.  A
\* record carries the conversation its tool call was issued in.
pushToCurrent(c, role) ==
  [c.conversations EXCEPT ![getCurrentConversation(c)].messages =
     Append(@, [role |-> role, origin |-> c.round.origin])]

\* A tool call of the current conversation is executed: handleToolExecution
\* or batchAutoExecuteTools up to the await of executeToolFromIntent.
ExecuteTool ==
  /\ chats.round.stage = "idle"
  /\ chats.rounds < MaxRounds
  /\ chats' = [chats EXCEPT
       !.round = [stage |-> "tool", origin |-> chats.currentConversationId],
       !.rounds = @ + 1]
  /\ UNCHANGED << orchestration, stream, validation, registry, turn, history, mcp >>

\* The tool call ends: the tool record is pushed to the conversation that
\* getCurrentConversation returns now; with the batch complete the results
\* go to the model.
ToolDone ==
  /\ chats.round.stage = "tool"
  /\ chats' = [chats EXCEPT !.conversations = pushToCurrent(chats, "tool"),
                            !.round.stage = "model"]
  /\ UNCHANGED << orchestration, stream, validation, registry, turn, history, mcp >>

\* The stream of the follow-up ends: handleStreamResponse pushes the
\* message of the model to the conversation getCurrentConversation returns
\* now.
FollowUpDone ==
  /\ chats.round.stage = "model"
  /\ chats' = [chats EXCEPT
       !.conversations = pushToCurrent(chats, "assistant"),
       !.round = Idle]
  /\ UNCHANGED << orchestration, stream, validation, registry, turn, history, mcp >>

\* A click on an entry of the history list.
switchConversation(conversationId) ==
  /\ \E i \in 1..Len(chats.conversations) :
       chats.conversations[i].id = conversationId
  /\ conversationId # chats.currentConversationId
  /\ chats' = [chats EXCEPT !.currentConversationId = conversationId]
  /\ UNCHANGED << orchestration, stream, validation, registry, turn, history, mcp >>

\* A click on the new-chat button: the new conversation is put in front
\* and becomes the current one.
createNewConversation ==
  /\ Len(chats.conversations) < MaxConversations
  /\ LET id == Len(chats.conversations) + 1
     IN chats' = [chats EXCEPT
          !.conversations = << Conversation(id) >> \o @,
          !.currentConversationId = id]
  /\ UNCHANGED << orchestration, stream, validation, registry, turn, history, mcp >>

NextConversations ==
  \/ ExecuteTool
  \/ ToolDone
  \/ FollowUpDone
  \/ \E conversationId \in 1..MaxConversations :
       switchConversation(conversationId)
  \/ createNewConversation

SpecConversations == Init /\ [][NextConversations]_vars

\* ------------------------------------------------------------------------
\* The tool calls of one reply, partitioned
\* ------------------------------------------------------------------------
\* A tool call of a reply: its name, and whether its accumulated arguments
\* string is valid JSON.  The calls a reply may hold: of the auto tool, of
\* the manual tool, of a tool no service lists, of the manual tool with a
\* broken arguments string, and a call whose name never arrived.
TurnCall(name, json) == [name |-> name, json |-> json]
TurnCalls ==
  { TurnCall("ta", TRUE), TurnCall("tm", TRUE), TurnCall("tu", TRUE),
    TurnCall("tm", FALSE), TurnCall(NoName, TRUE) }
TurnCallLists == UNION { [1..n -> TurnCalls] : n \in 1..MaxTurnCalls }

\* FunctionCallAdapter.extractToolCalls: JSON.parse of an arguments string
\* inside the map; its error is logged and thrown again.
extractToolCalls(toolCalls) ==
  [threw |-> \E j \in 1..Len(toolCalls) : ~toolCalls[j].json,
   parsedCalls |-> toolCalls]

\* handleFunctionCalls on the tool calls of a reply, by position in the
\* reply: the calls kept by slice(0, maxCalls), those of them with a name,
\* and of these the ones without an owner (a prompt each), the auto and the
\* manual ones (the batch).  An error of extractToolCalls is caught at the
\* end of the function, which shows it and returns.
DispatchTurn(toolCalls) ==
  /\ turn.phase = "start"
  /\ LET extracted == extractToolCalls(toolCalls)
         calls == 1..Min(Len(toolCalls), maxToolCallsPerTurn)
         named == { j \in calls : toolCalls[j].name # NoName }
         unrouted ==
           { j \in named : findServiceIdByTool(toolCalls[j].name) = "null" }
         autoExecuteTools ==
           { j \in named \ unrouted : isAutoExecute(toolCalls[j].name) }
         manualConfirmTools ==
           { j \in named \ unrouted : ~isAutoExecute(toolCalls[j].name) }
         none == extracted.threw
     IN turn' =
          [phase |-> "done", toolCalls |-> toolCalls,
           threw |-> extracted.threw,
           shown |-> IF extracted.threw THEN { showError } ELSE {},
           prompted |-> IF none THEN {} ELSE unrouted,
           autoExecuteTools |-> IF none THEN {} ELSE autoExecuteTools,
           manualConfirmTools |-> IF none THEN {} ELSE manualConfirmTools,
           totalCount |->
             IF none THEN 0
             ELSE Cardinality(autoExecuteTools) + Cardinality(manualConfirmTools)]
  /\ UNCHANGED << orchestration, stream, validation, registry, chats, history, mcp >>

NextTurn == \E toolCalls \in TurnCallLists : DispatchTurn(toolCalls)

SpecTurn == Init /\ [][NextTurn]_vars

\* ------------------------------------------------------------------------
\* The message list of a request
\* ------------------------------------------------------------------------
\* Array.prototype.slice(-n): the last n elements.
slice(seq, n) == SubSeq(seq, Len(seq) - Min(n, Len(seq)) + 1, Len(seq))

\* AIService.buildMessages without a system prompt: the last
\* maxMessageHistory messages of the history; a tool message is kept when
\* tool results are included, any other message when it has content or
\* tool calls (every message of a log here has); the query is added unless
\* it is the last message of the history already.
buildMessages(conversationHistory, includeToolResults) ==
  LET recentMessages == slice(conversationHistory, maxMessageHistory)
      kept ==
        SelectSeq(recentMessages,
                  LAMBDA msg : msg.role = "tool" => includeToolResults)
      isQueryAlreadyInHistory ==
        recentMessages # << >> /\ Last(recentMessages).role = "user"
  IN IF isQueryAlreadyInHistory THEN kept ELSE Append(kept, UserMsg)

\* The tool calls of the log that no tool message answers yet.
Unanswered(log) ==
  { id \in UNION { log[j].tool_calls : j \in 1..Len(log) } :
      \A j \in 1..Len(log) : log[j].tool_call_id # id }

\* A message of the user is logged.
LogUser ==
  /\ ~history.built
  /\ Len(history.log) < MaxLog
  /\ history' = [history EXCEPT !.log = Append(@, UserMsg)]
  /\ UNCHANGED << orchestration, stream, validation, registry, chats, turn, mcp >>

\* handleStreamResponse logs a reply of the model, with the tool call it
\* asks for (the id is the position of the message in the log).
LogAssistant(withCall) ==
  /\ ~history.built
  /\ Len(history.log) < MaxLog
  /\ Unanswered(history.log) = {}
  /\ history' = [history EXCEPT !.log =
       Append(@, AssistantMsg(IF withCall THEN { Len(history.log) + 1 }
                              ELSE {}))]
  /\ UNCHANGED << orchestration, stream, validation, registry, chats, turn, mcp >>

\* The result of a tool call of the log is logged.
LogTool(id) ==
  /\ ~history.built
  /\ Len(history.log) < MaxLog
  /\ id \in Unanswered(history.log)
  /\ history' = [history EXCEPT !.log = Append(@, ToolMsg(id))]
  /\ UNCHANGED << orchestration, stream, validation, registry, chats, turn, mcp >>

\* A request is built from the log.
BuildMessages(includeToolResults) ==
  /\ ~history.built
  /\ history' = [history EXCEPT
       !.built = TRUE,
       !.sent = buildMessages(history.log, includeToolResults)]
  /\ UNCHANGED << orchestration, stream, validation, registry, chats, turn, mcp >>

NextHistory ==
  \/ LogUser
  \/ \E withCall \in BOOLEAN : LogAssistant(withCall)
  \/ \E id \in 1..MaxLog : LogTool(id)
  \/ \E includeToolResults \in BOOLEAN : BuildMessages(includeToolResults)

SpecHistory == Init /\ [][NextHistory]_vars

\* ------------------------------------------------------------------------
\* One callTool of the MCP client
\* ------------------------------------------------------------------------
\* An entry of the trace: a request or notification the client sent, or an
\* event its handlers were given (the endpoint event, the answer to a
\* request with a result, with an error or with neither).
Sent(method) == [dir |-> "out", method |-> method, body |-> "none"]
Got(method, body) == [dir |-> "in", method |-> method, body |-> body]
Bodies == { "result", "error", "none" }

\* The time that has passed after MaxTicks-th parts of the timeout.
elapsed(clock) == (clock * timeout) \div MaxTicks

\* The same without settled = true and without cleanup().
settleOpen(m, timer, outcome) ==
  [m EXCEPT !.timer = timer,
            !.outcome = IF @ = "pending" THEN outcome ELSE @,
            !.settles = @ + 1]

\* settled = true; clearTimeout(timer) outside the timer; cleanup(), which
\* closes the event source; resolve or reject, of which the first call
\* decides the promise and a later one changes nothing.
settle(m, timer, outcome) ==
  [m EXCEPT !.settled = TRUE,
            !.timer = timer,
            !.es = IF @ = "none" THEN @ ELSE "closed",
            !.outcome = IF @ = "pending" THEN outcome ELSE @,
            !.settles = @ + 1]

\* The test without its second half: any answer to initialize.
initializeAnsweredAnyhow(m, id, body) == id = m.initializeRequestId

\* The first test of onmessage: the answer to initialize, with a result.
initializeAnswered(m, id, body) ==
  id = m.initializeRequestId /\ body = "result"

\* The method of the request that an id of an answer belongs to.
methodOf(m, id) ==
  IF id = m.initializeRequestId THEN "initialize"
  ELSE IF id = m.toolCallRequestId THEN "tools/call" ELSE "other"

\* callTool up to the end of the executor of its promise: the timer is set
\* and the event source is opened; if its constructor throws, the catch
\* rejects with the exception.
CallTool(throws) ==
  /\ mcp.stage = "idle"
  /\ mcp' = LET m == [mcp EXCEPT !.stage = "running", !.timer = "set"]
            IN IF throws
               THEN IF m.settled THEN m
                    ELSE settle(m, "cleared", "connection failed")
               ELSE [m EXCEPT !.es = "open"]
  /\ UNCHANGED << orchestration, stream, validation, registry, chats, turn, history >>

\* The server announces the endpoint of the session; the listener stores
\* the session url and waits 500 ms.
EndpointEvent ==
  /\ mcp.es = "open"
  /\ ~mcp.announced
  /\ mcp' = LET m == [mcp EXCEPT !.announced = TRUE,
                                 !.trace = Append(@, Got("endpoint", "none"))]
            IN IF m.settled THEN m
               ELSE [m EXCEPT !.sessionUrl = TRUE, !.endpoint = "waiting"]
  /\ UNCHANGED << orchestration, stream, validation, registry, chats, turn, history >>

\* The 500 ms are over: the listener takes the next id for initialize and
\* posts the request, which reaches the server or fails (the failure is
\* logged).
EndpointWake(delivered) ==
  /\ mcp.endpoint = "waiting"
  /\ mcp' = [mcp EXCEPT
       !.endpoint = "done",
       !.requestId = @ + 1,
       !.initializeRequestId = mcp.requestId + 1,
       !.received = IF delivered THEN @ \cup { mcp.requestId + 1 } ELSE @,
       !.trace = Append(@, Sent("initialize"))]
  /\ UNCHANGED << orchestration, stream, validation, registry, chats, turn, history >>

\* The server answers a request it has; onmessage: nothing once settled;
\* the answer to initialize with a result posts the initialized
\* notification and waits for the end of the post; the answer to tools/call
\* resolves with the result or rejects with the error, and is passed over
\* when it has neither.
Message(id, body) ==
  /\ mcp.es = "open"
  /\ id \in mcp.received
  /\ mcp' = LET m == [mcp EXCEPT
                   !.received = @ \ { id },
                   !.trace = Append(@, Got(methodOf(mcp, id), body))]
            IN IF m.settled THEN m
               ELSE IF initializeAnswered(m, id, body)
                 THEN [m EXCEPT
                         !.notifying = TRUE,
                         !.trace =
                           Append(@, Sent("notifications/initialized"))]
               ELSE IF id = m.toolCallRequestId /\ body = "result"
                 THEN settle(m, "cleared", "result")
               ELSE IF id = m.toolCallRequestId /\ body = "error"
                 THEN settle(m, "cleared", "tool error")
               ELSE m
  /\ UNCHANGED << orchestration, stream, validation, registry, chats, turn, history >>

\* The post of the notification ended (sendNotification catches its
\* failure): onmessage takes the next id for tools/call and posts the
\* request, which reaches the server or fails (the failure is logged).
NotificationDone(delivered) ==
  /\ mcp.notifying
  /\ mcp' = [mcp EXCEPT
       !.notifying = FALSE,
       !.requestId = @ + 1,
       !.toolCallRequestId = mcp.requestId + 1,
       !.received = IF delivered THEN @ \cup { mcp.requestId + 1 } ELSE @,
       !.trace = Append(@, Sent("tools/call"))]
  /\ UNCHANGED << orchestration, stream, validation, registry, chats, turn, history >>

\* The connection of the event source fails: onerror rejects unless the
\* call is settled.
SseError ==
  /\ mcp.es = "open"
  /\ mcp' = IF mcp.settled THEN mcp
            ELSE settle(mcp, "cleared", "SSE connection failed")
  /\ UNCHANGED << orchestration, stream, validation, registry, chats, turn, history >>

\* The timer of callTool fires when this.timeout has passed: it rejects
\* unless the call is settled.
TimerFires ==
  /\ mcp.timer = "set"
  /\ elapsed(mcp.clock) >= timeout
  /\ mcp' = IF mcp.settled THEN [mcp EXCEPT !.timer = "fired"]
            ELSE settle(mcp, "fired", "Tool call timeout")
  /\ UNCHANGED << orchestration, stream, validation, registry, chats, turn, history >>

\* Time passes; a timer that is due fires before more time passes.
Tick ==
  /\ mcp.stage = "running"
  /\ mcp.clock <= MaxTicks
  /\ mcp.timer = "set" => elapsed(mcp.clock) < timeout
  /\ mcp' = [mcp EXCEPT !.clock = @ + 1]
  /\ UNCHANGED << orchestration, stream, validation, registry, chats, turn, history >>

NextMcp ==
  \/ \E throws \in BOOLEAN : CallTool(throws)
  \/ EndpointEvent
  \/ \E delivered \in BOOLEAN : EndpointWake(delivered)
  \/ \E id \in 1..2, body \in Bodies : Message(id, body)
  \/ \E delivered \in BOOLEAN : NotificationDone(delivered)
  \/ SseError
  \/ TimerFires
  \/ Tick

SpecMcp == Init /\ [][NextMcp]_vars

\* ------------------------------------------------------------------------
\* Claims
\* ------------------------------------------------------------------------
Count(seq, x) == Cardinality({ j \in 1..Len(seq) : seq[j] = x })

\* C1: a batch that is never cancelled is resubmitted to the model exactly
\* once: no batch is ever resubmitted twice, and a live batch that was not
\* cancelled and holds all its totalCount results has been resubmitted.
C1_ExactlyOneResubmission ==
  /\ \A j \in 1..Len(dispatches) : Count(resubmits, dispatches[j].b) <= 1
  /\ \A b \in DOMAIN pendingManualTools :
       LET batch == pendingManualTools[b]
       IN /\ (~batch.cancelled /\ Len(batch.results) >= batch.totalCount
               => Count(resubmits, b) = 1)
          /\ (b \notin everCancelled /\ Len(batch.results) < batch.totalCount
               => Count(resubmits, b) = 0)

\* A batch of two tools, never cancelled, with both results in and its
\* single resubmission under way.
C1_Witness ==
  \E b \in DOMAIN pendingManualTools :
    /\ pendingManualTools[b].totalCount = 2
    /\ Len(pendingManualTools[b].results) = 2
    /\ b \notin everCancelled
    /\ Count(resubmits, b) = 1

\* C2: every batch whose cancelled flag was set is never resubmitted on
\* the normal path and gets exactly one run of the cancellation-conclusion
\* path.
C2_CancelledBatchConcludesOnce ==
  \A b \in everCancelled :
    /\ Count(resubmits, b) = 0
    /\ Count(conclusions, b) = 1

\* C3: in a turn in which the model keeps asking for tools, a dispatch that
\* a resubmission produced carries the depth of the resubmitted batch plus
\* one, and no more than maxToolCallsPerTurn dispatches ever happen.
C3_LoopStopsAtLimit ==
  /\ Len(dispatches) <= maxToolCallsPerTurn
  /\ \A j \in 1..Len(dispatches) :
       (dispatches[j].from = "resubmit" /\ dispatches[j].parent # null)
         => dispatches[j].depth = dispatches[dispatches[j].parent].depth + 1

\* C4: every tool message of the log carries the id of a tool call of an
\* assistant message that stands strictly earlier in the log.
C4_ToolMessageAnswersEarlierCall ==
  \A j \in 1..Len(messages) :
    messages[j].role = "tool"
      => \E i \in 1..(j - 1) :
           /\ messages[i].role = "assistant"
           /\ messages[j].tool_call_id \in messages[i].tool_calls

\* C5: a batch one of whose auto-executed tools failed is not aborted: its
\* serial execution is still running, or it was resubmitted, or it is live
\* with a prompt on display for each of its manual tools.
C5_FailedAutoToolDoesNotAbortBatch ==
  \A f \in failures :
    f.auto =>
      \/ \E k \in 1..Len(tasks) : tasks[k].pc = "auto" /\ tasks[k].b = f.b
      \/ Count(resubmits, f.b) >= 1
      \/ /\ f.b \in DOMAIN pendingManualTools
         /\ pendingManualTools[f.b].manualCount > 0
         /\ Cardinality({ e \in 1..Len(prompts) : prompts[e].batchId = f.b })
              = pendingManualTools[f.b].manualCount

\* C6: a failed execution of a tool of a live batch is an error result of
\* that batch: in its results, or among the results its running serial
\* execution adds to them when it ends.
C6_FailureIsAnErrorResult ==
  \A f \in failures :
    f.b \in DOMAIN pendingManualTools =>
      LET isErrorOf(r) == r.toolCallId = f.id /\ r.error
          results == pendingManualTools[f.b].results
      IN \/ \E j \in 1..Len(results) : isErrorOf(results[j])
         \/ \E k \in 1..Len(tasks) :
              /\ tasks[k].pc = "auto" /\ tasks[k].b = f.b
              /\ \E j \in 1..Len(tasks[k].res) : isErrorOf(tasks[k].res[j])

\* C7: no completion of a tool of a batch that was cancelled before sends
\* a request with tools to the model.
C7_NoToolRequestAfterCancellation == lateRequests = {}

\* C8: every cancel of a prompt of a live batch leaves that batch with its
\* cancelled flag set when the handler gives up control.
C8_EveryCancelSetsFlag == ~missedCancel

\* C9: a conclusion run makes at most two attempts after its first request,
\* and every request of the run takes along a smaller window of history
\* than the request before it.
C9_BoundedShrinkingRetries ==
  \A k \in 1..Len(tasks) :
    tasks[k].pc \in {"cancelReq", "forceGen"} =>
      LET w == tasks[k].ctxs
      IN /\ Len(w) <= 1 + MAX_RETRIES
         /\ \A j \in 2..Len(w) : w[j] < w[j - 1]

\* C10: no request of the cancellation-conclusion path carries tools, and
\* the handling of a reply to such a request shows no prompt, dispatches
\* no tool calls, changes no batch and starts no tool execution.
C10_ConclusionPathWithoutTools ==
  /\ [](\A k \in 1..Len(tasks) :
          tasks[k].pc \in {"cancelReq", "forceGen"}
            => ~requestCarriesTools(tasks[k].opts))
  /\ [][(\E k \in 1..Len(tasks) : CancelReply(k) \/ ForceGenReply(k))
         => /\ prompts' = prompts
            /\ dispatches' = dispatches
            /\ pendingManualTools' = pendingManualTools
            /\ \A j \in 1..Len(tasks') :
                 tasks'[j].pc \in {"auto", "exec"}
                   => \E i \in 1..Len(tasks) : tasks[i] = tasks'[j]]_vars

\* The last retry of a forced conclusion is in flight, after replies that
\* carried a tool call, while a prompt of the cancelled batch is on display.
C10_Witness ==
  \E k \in 1..Len(tasks) :
    /\ tasks[k].pc = "forceGen"
    /\ tasks[k].retry = MAX_RETRIES
    /\ tasks[k].b # null
    /\ \E j \in 1..Len(messages) :
         messages[j].role = "assistant" /\ 0 \in messages[j].tool_calls

\* C12: a resubmission whose request failed ended with the raw summary of
\* the tool results on display.
C12_ResubmissionFailureShowsSummary ==
  \A e \in endings :
    e.kind = "resubmission" => displayToolResultsSummary \in e.shown

\* C13: every failed ending of a round showed an error message or the
\* results in some form.
C13_EveryFailureLeavesTrace ==
  \A e \in endings :
    e.shown \cap { showError, displayToolResultsSummary, emptyStreamNotice,
                   rawResultMessage } # {}

\* A step that starts the cancellation-conclusion run of a live batch: the
\* run is the task the step appends.
StartsConclusion(k) ==
  /\ k = Len(tasks) + 1
  /\ Len(tasks') = k
  /\ tasks'[k].pc = "cancelReq"
  /\ tasks'[k].b # null

\* C11 (as stated): the conclusion run of a batch is handed exactly the
\* results recorded for that batch.
C11_ConclusionGetsBatchResults ==
  [][\A k \in 1..(Len(tasks) + 1) :
       StartsConclusion(k)
         => tasks'[k].res = pendingManualTools[tasks'[k].b].results]_vars

\* C11 (amended): the conclusion run of a batch is handed the cached tool
\* results of the whole conversation, and these include every result the
\* batch has recorded.
C11_ConclusionGetsCachedResults ==
  [][\A k \in 1..(Len(tasks) + 1) :
       StartsConclusion(k)
         => LET results == pendingManualTools[tasks'[k].b].results
            IN /\ tasks'[k].res = toolResultsCache
               /\ \A j \in 1..Len(results) :
                    \E i \in 1..Len(tasks'[k].res) :
                      tasks'[k].res[i] = results[j]]_vars

\* A conclusion run of a live batch under way that was handed a cached
\* result the batch has not recorded.
C11_Witness ==
  \E k \in 1..Len(tasks) :
    /\ tasks[k].pc = "cancelReq"
    /\ tasks[k].b \in DOMAIN pendingManualTools
    /\ tasks[k].res # <<>>
    /\ \E i \in 1..Len(tasks[k].res) :
         \A j \in 1..Len(pendingManualTools[tasks[k].b].results) :
           pendingManualTools[tasks[k].b].results[j] # tasks[k].res[i]
\* C14: every append to the conversation log is followed by a completed
\* persist before the next network call: no tool call and no model request
\* is issued while the log holds a message that was not saved, or whose
\* write is still under way.
C14_PersistedBeforeNetworkCall ==
  staleCalls \cap {"unsaved", "saving"} = {}

\* C15: when a save returns false the loop does not go on as though it had
\* succeeded: no tool call and no model request is issued while the last
\* write that ended has failed.
C15_NoNetworkCallAfterFailedSave ==
  "afterFailedSave" \notin staleCalls

\* The slots the tool frames of fs name, the j-th of them in index order,
\* and what the frames of fs deliver for slot i, read off the frames.
SlotsOf(fs) == { fs[j].index : j \in { x \in 1..Len(fs) : fs[x].kind = "tool" } }
NthSlot(fs, j) ==
  CHOOSE i \in SlotsOf(fs) : Cardinality({ x \in SlotsOf(fs) : x < i }) = j - 1
RECURSIVE ArgumentsOf(_, _)
ArgumentsOf(fs, i) ==
  IF fs = <<>> THEN <<>>
  ELSE (IF Head(fs).kind = "tool" /\ Head(fs).index = i
        THEN Head(fs).arguments ELSE <<>>) \o ArgumentsOf(Tail(fs), i)
RECURSIVE FirstNameOf(_, _)
FirstNameOf(fs, i) ==
  IF fs = <<>> THEN NoName
  ELSE IF Head(fs).kind = "tool" /\ Head(fs).index = i /\ Head(fs).name # NoName
  THEN Head(fs).name
  ELSE FirstNameOf(Tail(fs), i)

\* C16: when the stream has ended, the accumulator has one tool call for
\* each slot the frames named, in the order of the slot indices, and the
\* arguments of each are the argument fragments of its slot, concatenated
\* in the order they were delivered, whatever else came in between.
C16_OneCallPerSlotInIndexOrder ==
  stream.ended # "no" =>
    /\ Len(stream.tool_calls) = Cardinality(SlotsOf(stream.frames))
    /\ \A j \in 1..Len(stream.tool_calls) :
         stream.tool_calls[j].arguments =
           ArgumentsOf(stream.frames, NthSlot(stream.frames, j))

\* Two slots, the higher one delivered first and fed again after the
\* lower one: its arguments are the two fragments in delivery order.
C16_Witness ==
  /\ stream.ended # "no"
  /\ Len(stream.frames) = 3
  /\ stream.frames[1].kind = "tool" /\ stream.frames[1].index = 1
  /\ stream.frames[2].kind = "tool" /\ stream.frames[2].index = 0
  /\ stream.frames[3].kind = "tool" /\ stream.frames[3].index = 1
  /\ Len(stream.tool_calls) = 2
  /\ stream.tool_calls[2].arguments = << "a", "b" >>

\* C17: the name of a slot is the first non-empty name delivered for it; a
\* later fragment with another non-empty name does not change it.
C17_FirstNameIsKept ==
  stream.ended # "no" =>
    \A j \in 1..Len(stream.tool_calls) :
      stream.tool_calls[j].name =
        FirstNameOf(stream.frames, NthSlot(stream.frames, j))

\* A stream whose frames carry no text and which completed a slot (its
\* name arrived), read to its end without a read error.
OnlyToolCalls ==
  /\ stream.ended \in {"done", "cut"}
  /\ \A j \in 1..Len(stream.frames) : stream.frames[j].content = <<>>
  /\ \E j \in 1..Len(stream.frames) :
       stream.frames[j].kind = "tool" /\ stream.frames[j].name # NoName

\* C18: a stream with no text fragment and at least one complete tool-call
\* slot is returned as content "" together with the accumulated tool calls
\* and the turn goes on to dispatch them: it is not answered as a reply
\* without content.  (A stream broken by a read error is the case of C19.)
C18_EmptyContentWithToolCallsIsDispatched ==
  OnlyToolCalls =>
    /\ stream.returned.content = <<>>
    /\ stream.returned.tool_calls # noToolCalls
    /\ stream.returned.tool_calls = ObjectValues(stream.toolCallsMap)
    /\ stream.route = "dispatch"

C18_Witness ==
  /\ OnlyToolCalls
  /\ stream.route = "dispatch"
  /\ stream.returned.content = <<>>
  /\ Len(stream.returned.tool_calls) = 2

\* The frames of fs that JSON.parse accepts, and what the accumulator and
\* the consumer make of a sequence of frames.
Parseable(fs) == SelectSeq(fs, LAMBDA f : f.kind # "garbage")
RECURSIVE MapOf(_)
MapOf(fs) ==
  IF fs = <<>> THEN << >>
  ELSE IF Last(fs).kind = "tool" THEN accumulate(MapOf(Front(fs)), Last(fs))
  ELSE MapOf(Front(fs))
RECURSIVE ContentOf(_)
ContentOf(fs) ==
  IF fs = <<>> THEN <<>> ELSE Head(fs).content \o ContentOf(Tail(fs))

\* C19: a frame that cannot be parsed leaves what the other frames
\* accumulate as it would be without it; and when the last frame is
\* unparseable, or the body breaks off within a line (reported by the
\* reader as the end of the body or as a read error), the content and the
\* tool calls accumulated so far are what is returned.
C19_PartialResultIsReturned ==
  /\ stream.toolCallsMap = MapOf(Parseable(stream.frames))
  /\ stream.fullContent = ContentOf(Parseable(stream.frames))
  /\ (\/ stream.ended \in {"cut", "error"}
      \/ (stream.ended = "done" /\ stream.frames # <<>>
            /\ Last(stream.frames).kind = "garbage"))
       => /\ stream.returned.content = stream.fullContent
          /\ stream.returned.tool_calls = ObjectValues(stream.toolCallsMap)

\* The properties of the schema that declare an enum and whose argument,
\* as given and as converted to the type of the property, is not in it.
OutsideEnum(v) ==
  { p \in DOMAIN v.args \cap DOMAIN v.schema.properties :
      /\ v.schema.properties[p].declaresEnum
      /\ v.args[p] \notin v.schema.properties[p].enum
      /\ normalize(v.schema.properties[p], v.args[p])
           \notin v.schema.properties[p].enum }

MissingRequired(v) ==
  { p \in v.schema.required :
      v.raw.shape # "object" \/ p \notin DOMAIN v.args \/ v.args[p] = Null }

\* C21: with a schema at hand, the validation fails whenever a required
\* field is missing or null in the raw arguments, whatever the raw
\* arguments are, absent or not an object included.
C21_MissingRequiredFails ==
  (validation.called /\ validation.schema.known
     /\ MissingRequired(validation) # {})
    => validation.result.threw

\* C22: the validation is idempotent: when it succeeds, validating what it
\* returned succeeds too and returns the same arguments.
C22_ValidationIsIdempotent ==
  (validation.called /\ ~validation.result.threw) =>
    validateAndNormalizeToolArgs(validation.schema,
                                 Object(validation.result.validatedArgs))
      = validation.result

\* The catalog as the set of its entries, and what a configuration says of
\* a service.
Prepared == registry.phase \in {"prepared", "called", "executed"}
EntriesOf(functions) ==
  { << functions[i].serviceId, functions[i].name >> : i \in 1..Len(functions) }
EnabledService(r, id) == \E i \in 1..Len(ServiceIds) : ServiceIds[i] = id /\ r.services[i]
Lists(r, id, name) == r.cache[id].cached /\ includes(r.cache[id].tools, name)

\* C23: the catalog presented to the model holds exactly the tools t of
\* enabled services s whose flag toolsEnabled[s:t] is not false: no tool of
\* a disabled service, and every tool without a stored flag.
C23_CatalogIsEnabledToolsOfEnabledServices ==
  Prepared =>
    EntriesOf(registry.functions) =
      { k \in ToolKeys : /\ EnabledService(registry.settings, k[1])
                         /\ Lists(registry.settings, k[1], k[2])
                         /\ registry.settings.toolsEnabled[k] # "false" }

\* C23 witness: a catalog built while a disabled service lists a tool, and
\* an enabled one lists a tool switched off and a tool without a flag.
C23_Witness ==
  /\ Prepared
  /\ ~EnabledService(registry.settings, "s1")
  /\ Lists(registry.settings, "s1", "ta")
  /\ EnabledService(registry.settings, "s2")
  /\ Lists(registry.settings, "s2", "ta")
  /\ Lists(registry.settings, "s2", "tb")
  /\ registry.settings.toolsEnabled[<< "s2", "ta" >>] = "false"
  /\ registry.settings.toolsEnabled[<< "s2", "tb" >>] = "unset"
  /\ registry.functions = << [name |-> "tb", serviceId |-> "s2"] >>


\* C24: the service a tool call is executed on is the one the owner lookup
\* reports; a call for which the lookup reports no service is executed on
\* no service.
C24_ExecutedOnTheOwner ==
  registry.phase = "executed" => registry.target = registry.serviceId


\* C25: the names of the catalog presented to the model are unique: the
\* catalog never holds two entries of the same name.
C25_CatalogNamesAreUnique ==
  Prepared =>
    \A i, j \in 1..Len(registry.functions) :
      registry.functions[i].name = registry.functions[j].name => i = j


\* C26: a tool call whose owner cannot be resolved is kept as a manual call
\* without a route: it gets a prompt, the prompt is an error prompt, and it
\* is not executed without a confirmation.
C26_UnroutedCallIsAnErrorPrompt ==
  (registry.phase \in {"called", "executed"} /\ registry.serviceId = "null") =>
    /\ registry.part = "unrouted"
    /\ registry.prompt = "error"
    /\ registry.phase = "executed" => registry.confirmed


\* The stored auto-execute flag of a tool under its owner is true; a prompt
\* of the call was confirmed by a click on its execute button.
AutoFlagged(toolName) ==
  \E i \in 1..Len(mcpServices) :
    /\ mcpServices[i].id = findServiceIdByTool(toolName)
    /\ << mcpServices[i].id, toolName >> \in toolsAutoExecute
Confirmed(toolCallId) ==
  \E e \in 1..Len(prompts) :
    prompts[e].toolCallId = toolCallId /\ prompts[e].clicks >= 1

\* C27: a tool call is executed without a confirmation of the human only
\* if the auto-execute flag of its owner and name is true: the serial loop
\* runs flagged calls only, every other execution in flight and every other
\* result or failure belongs to a prompt whose execute button was clicked.
C27_UnconfirmedExecutionOnlyIfFlagged ==
  /\ \A k \in 1..Len(tasks) :
       /\ tasks[k].pc = "auto" =>
            \A j \in 1..Len(tasks[k].calls) : AutoFlagged(tasks[k].calls[j].name)
       /\ tasks[k].pc = "exec" => prompts[tasks[k].p].clicks >= 1
  /\ \A j \in 1..Len(toolResultsCache) :
       \/ AutoFlagged(toolResultsCache[j].toolName)
       \/ Confirmed(toolResultsCache[j].toolCallId)
  /\ \A f \in failures : f.auto \/ Confirmed(f.id)

\* C27 witness: the result of a flagged call that was never prompted stands
\* next to the result of a call of the manual tool, whose prompt was
\* confirmed.
C27_Witness ==
  \E i, j \in 1..Len(toolResultsCache) :
    /\ toolResultsCache[i].toolName = "ta"
    /\ ~Confirmed(toolResultsCache[i].toolCallId)
    /\ toolResultsCache[j].toolName = "tm"
    /\ Confirmed(toolResultsCache[j].toolCallId)


\* The tool calls a sequence of results answers.
AnsweredCalls(results) == { results[j].toolCallId : j \in 1..Len(results) }

\* C28: the normal resubmission of a batch is issued only when every tool
\* call of the batch has a result: it carries one result for each of the
\* totalCount distinct tool calls of the batch.
C28_ResubmissionAnswersEveryCall ==
  [][\A b \in 1..Len(dispatches) :
       Count(resubmits', b) > Count(resubmits, b) =>
         /\ b \in DOMAIN pendingManualTools'
         /\ Len(pendingManualTools'[b].results) = dispatches[b].total
         /\ Cardinality(AnsweredCalls(pendingManualTools'[b].results))
              = dispatches[b].total]_vars


\* The position of a tool call in the request of the model: ids are handed
\* out in request order, generated ones with the opposite sign.
PositionOf(call) == IF call.id < 0 THEN 0 - call.id ELSE call.id
AutoTasksOf(b) == { k \in 1..Len(tasks) : tasks[k].pc = "auto" /\ tasks[k].b = b }

\* C29: the auto tools of a batch run strictly one after the other in
\* request order: a batch never has two auto executions in flight, the call
\* in flight is call i of the list, the calls are listed in request order,
\* and every call before it has ended with its result.
C29_AutoToolsRunSerially ==
  \A b \in 1..Len(dispatches) :
    /\ Cardinality(AutoTasksOf(b)) <= 1
    /\ \A k \in AutoTasksOf(b) :
         LET t == tasks[k]
         IN /\ t.i \in 1..Len(t.calls)
            /\ Len(t.res) = t.i - 1
            /\ \A j \in 1..Len(t.res) : t.res[j].toolCallId = t.calls[j].id
            /\ \A j \in 1..(Len(t.calls) - 1) :
                 PositionOf(t.calls[j]) < PositionOf(t.calls[j + 1])

\* C29 witness: the second auto tool of a batch is in flight after the
\* first has ended.
C29_Witness ==
  \E k \in 1..Len(tasks) :
    /\ tasks[k].pc = "auto"
    /\ tasks[k].i = 2
    /\ Len(tasks[k].res) = 1


\* C30: the tool result of a tool call issued in a conversation, and the
\* follow-up of the model it triggers, are appended to the log of that
\* conversation and of no other, whatever the user creates or switches to
\* in between.
C30_ResultsStayInTheirConversation ==
  \A i \in 1..Len(chats.conversations) :
    \A j \in 1..Len(chats.conversations[i].messages) :
      chats.conversations[i].messages[j].origin = chats.conversations[i].id


\* The calls of the reply that went to the batch or got a prompt.
Dispatched == turn.autoExecuteTools \cup turn.manualConfirmTools \cup turn.prompted

\* C31: a tool call whose arguments string is not valid JSON fails alone:
\* the other calls of the reply, those among the first maxToolCallsPerTurn
\* that have a name, are still partitioned and dispatched.
C31_BrokenArgumentsFailOneCall ==
  turn.phase = "done" =>
    \A j \in 1..Len(turn.toolCalls) :
      ( /\ j <= maxToolCallsPerTurn
        /\ turn.toolCalls[j].name # NoName
        /\ turn.toolCalls[j].json ) => j \in Dispatched


\* C33: every tool call of the reply is placed in the batch of the turn,
\* where totalCount counts it, or gets a prompt, however many calls the
\* reply holds.
C33_EveryCallIsBatchedOrPrompted ==
  turn.phase = "done" =>
    /\ \A j \in 1..Len(turn.toolCalls) : j \in Dispatched
    /\ turn.totalCount =
         Cardinality(turn.autoExecuteTools \cup turn.manualConfirmTools)


\* C32: once the results of a completed batch were found sufficient, the
\* conclusion request carries no tool catalog and, whatever its reply, no
\* further tool round is dispatched.
C32_SufficientResultsEndTheToolRounds ==
  [][\A k \in 1..Len(tasks) :
       tasks[k].pc = "force" =>
         /\ ~requestCarriesTools(tasks[k].opts)
         /\ dispatches' = dispatches]_vars


\* A name that some service lists, and that the catalog holds under no
\* service: every service that lists it is disabled or has it switched off.
SwitchedOff(r, functions, toolName) ==
  /\ \E s \in {"s1", "s2"} : Lists(r, s, toolName)
  /\ \A s \in {"s1", "s2"} : << s, toolName >> \notin EntriesOf(functions)

\* C34: a tool that is switched off in toolsEnabled, or that belongs to a
\* disabled service, is not executed on any service, neither automatically
\* nor after a confirmation, even if the model calls it.
C34_SwitchedOffToolIsNotExecuted ==
  ( /\ registry.phase = "executed"
    /\ SwitchedOff(registry.settings, registry.functions, registry.toolName) )
  => registry.target = "null"


\* C35: in every message list sent to the model, each tool message comes
\* after an assistant message of the same list whose tool calls hold its
\* tool_call_id, also when the history was cut to the last messages.
C35_ToolMessageFollowsItsCall ==
  history.built =>
    \A j \in 1..Len(history.sent) :
      history.sent[j].role = "tool" =>
        \E i \in 1..(j - 1) :
          /\ history.sent[i].role = "assistant"
          /\ history.sent[j].tool_call_id \in history.sent[i].tool_calls


\* The number of assistant messages of a log.
Assistants(log) == Cardinality({ j \in 1..Len(log) : log[j].role = "assistant" })

\* C36: a step that takes in one reply of the model adds at most one
\* assistant message to the log of the conversation, on the ordinary turn,
\* on the resubmission, on the conclusion after a cancellation and on its
\* repeated attempts.
C36_OneAssistantMessagePerReply ==
  [][Assistants(messages') <= Assistants(messages) + 1]_vars


\* C38: at every moment every batch holds at most totalCount results, and
\* no two of its results belong to the same tool call.
C38_ResultsBoundedAndDistinct ==
  \A b \in DOMAIN pendingManualTools :
    LET results == pendingManualTools[b].results
    IN /\ Len(results) <= pendingManualTools[b].totalCount
       /\ \A i, j \in 1..Len(results) :
            results[i].toolCallId = results[j].toolCallId => i = j


\* C39: the prompts that exist at the same time have different ids, so the
\* element that the handler of a button finds by the id is the prompt the
\* button belongs to.
C39_PromptIdsAreDistinct ==
  \A e, f \in 1..Len(prompts) :
    prompts[e].id = prompts[f].id => e = f


\* The positions of the trace where the tools/call request was sent.
ToolCallsSent ==
  { p \in 1..Len(mcp.trace) : mcp.trace[p] = Sent("tools/call") }

C40_SettlesOnceWithinTimeout ==
  /\ [](mcp.settles <= 1)
  /\ [](elapsed(mcp.clock) > timeout => mcp.settles = 1)
  /\ [](mcp.settles = 1 =>
          mcp.outcome \in { "result", "tool error", "connection failed",
                            "SSE connection failed", "Tool call timeout" })
  /\ [][mcp.outcome # "pending" => mcp'.outcome = mcp.outcome]_vars

\* The call resolved with the result and more than the timeout has passed.
C40_Witness ==
  /\ mcp.outcome = "result"
  /\ elapsed(mcp.clock) > timeout

====
